---- MODULE Spec2Model ----
(***************************************************************************)
(* fragscrape: the proxy credential manager (ProxyManager) with its pool   *)
(* and store, the two transport clients (HttpClient, BrowserClient),       *)
(* retryWithBackoff and the caches of DatabaseService.                     *)
(*                                                                         *)
(* The program runs on one event loop.  Every `await` of an upstream or    *)
(* browser call is a suspension point: a handler is modelled as the        *)
(* sequence of its synchronous segments, one action per segment, and the   *)
(* answer of the awaited call is chosen when the segment after it runs.    *)
(***************************************************************************)
EXTENDS Integers, Sequences, FiniteSets, TLC

\* ------------------------------------------------------------------ bounds
\* Largest number of sub-users the pool is grown to (createSubUser calls).
MaxSubUsers == 2
\* How far the clock runs, in quarter days, and the largest number of rows
\* of the search_cache table.
MaxClock == 5
MaxSearchRows == 2

\* ------------------------------------------------------- program constants
\* 1024 * 1024: bytes per MB (types.ts:139).
BytesPerMB == 1048576
\* config.subUserManagement.warningThresholdMB (config.ts:70).
WarningThresholdMB == 900
\* config.subUserManagement.trafficLimitGB * 1024 MB (config.ts:69,
\* decodoClient.ts:121): the quota a created sub-user gets, in MB.
CreatedLimitMB == 1024

\* Largest number of session ids generated (randomUUID never repeats; the
\* ids are numbered 1, 2, ... in the order they are generated).
MaxSessions == 2
\* Largest number of browsers launched, and of pages opened.
MaxBrowsers == 2
MaxPages == 2

\* DEFAULT_OPTIONS of retryWithBackoff (part_008:11-24).
DefaultMaxRetries == 3
InitialDelay == 1000
MaxDelay == 10000
BackoffMultiplier == 2
\* RETRY_CONFIG.BROWSER_MAX_RETRIES (part_014:24).
BrowserMaxRetries == 2
RetryableErrors ==
  {"ECONNRESET", "ETIMEDOUT", "ENOTFOUND", "ECONNREFUSED", "ENETUNREACH", "EAI_AGAIN"}

\* Callers of getProxyConfig other than the transport clients.
Callers == {"c1"}
\* Calls of HttpClient.get / HttpClient.post in progress.
HttpProcs == {"h1", "h2"}
\* Calls of BrowserClient.getPageContent in progress.
BrowserProcs == {"b1", "b2"}
Procs == Callers \cup HttpProcs \cup BrowserProcs
\* The monitoring timer's callback.
Timer == "timer"

\* What decodoClient.getSubUserTraffic can answer: a traffic record in bytes,
\* or a failure (the promise rejects).
Traffic(u, l) == [failed |-> FALSE, traffic_used |-> u, traffic_limit |-> l]
TrafficFailed == [failed |-> TRUE, traffic_used |-> 0, traffic_limit |-> 0]
TrafficReads ==
  { Traffic(WarningThresholdMB * BytesPerMB - 1, 1000 * BytesPerMB),  \* below the threshold
    Traffic(WarningThresholdMB * BytesPerMB, 1000 * BytesPerMB),      \* exactly the threshold
    Traffic(WarningThresholdMB * BytesPerMB, 900 * BytesPerMB),       \* exactly the limit
    Traffic(WarningThresholdMB * BytesPerMB - 1, 500 * BytesPerMB),   \* over a limit below the threshold
    TrafficFailed }

VARIABLES
  subUsers,        \* ProxyManager.subUsers: the Map's values in insertion order
  currentSubUser,  \* ProxyManager.currentSubUser: an index of subUsers, 0 for null
  mcall,           \* per caller: the getProxyConfig call it has in progress
  timerPc,         \* the monitoring callback: "idle" or "checking"
  timerTarget,     \* the sub-user the monitoring callback is checking
  emitted,         \* the events the last step emitted, in order
  lastRead,        \* the quota read the last step classified (NoRead if none)
  upstreamCreates, \* number of create calls sent to the provisioning API
  nextSession,     \* number of session ids generated so far
  axiosInstance,   \* HttpClient.axiosInstance: the proxy auth it was created with
  httpSessionId,   \* HttpClient.sessionId, 0 for null
  rotatedFrom,     \* the sub-user of the instance POST /rotate dropped (0: none),
                   \* until the next instance is created
  hcall,           \* per HTTP caller: the get/post call it has in progress
  lastAnswer,      \* the answer to an HTTP request the last step handled
  browsers,        \* every browser launched so far: connected, and its proxy auth
  pages,           \* every page opened so far: open, its browser, its document
  browser,         \* BrowserClient.browser: an index of browsers, 0 for null
  activePage,      \* BrowserClient.activePage: an index of pages, 0 for null
  browserSessionId,\* BrowserClient.sessionId, 0 for null
  bcall,           \* per browser caller: the getPageContent call it has in progress
  dbSubUsers,      \* the rows of the database's subusers table
  acall,           \* the addExistingSubUser call in progress
  stats,           \* what getStatistics returned, when the last step was a call of it
  ccall,           \* how createSubUser ended, when the last step was its end
  clock,           \* the time, in quarter days after 2026-11-01T00:00:00Z
  perfumes,        \* the rows of the database's perfumes table
  searchCache,     \* the rows of the database's search_cache table, in insertion order
  lastGet,         \* what a cache read returned, when the last step was one
  searchCall,      \* the last GET /search request: its parameters and its response
  doc,             \* the document handed to HtmlExtractor.extractAllRatings
  ratings,         \* what extractAllRatings returned for doc, once it has run
  rawName,         \* the raw name handed to UrlProcessor.processPerfumeName
  nameRuns,        \* what processPerfumeName returned for rawName, and then for
                   \* the name it had returned
  searchArgs,      \* the query and limit of ParfumoScraper.search and the links of
                   \* the page it got, per selector
  searchRun,       \* what search scored, kept and returned, once it has run
  checkInterval,   \* ProxyManager.checkInterval: whether the interval timer is set
  rcall,           \* a retryWithBackoff call: its options, loop variables and history
  usingApiKey,     \* DecodoClient.usingApiKey
  authToken,       \* DecodoClient.authToken (0: null)
  userId,          \* DecodoClient.userId (0: null)
  authorization,   \* the Authorization header of DecodoClient.apiClient
  issuedTokens,    \* the number of tokens the provider has issued
  dcall            \* DecodoClient operations in progress

mgrVars == <<subUsers, currentSubUser, mcall, timerPc, timerTarget, emitted, lastRead,
             upstreamCreates>>
httpVars == <<axiosInstance, httpSessionId, rotatedFrom, hcall, lastAnswer>>
browserVars == <<browsers, pages, browser, activePage, browserSessionId, bcall>>
poolVars == <<dbSubUsers, acall, stats, ccall>>
cacheVars == <<clock, perfumes, searchCache, lastGet, searchCall>>
scraperVars == <<doc, ratings, rawName, nameRuns, searchArgs, searchRun>>
decodoVars == <<usingApiKey, authToken, userId, authorization, issuedTokens, dcall>>
pureVars == <<scraperVars, rcall, decodoVars>>
vars == <<mgrVars, nextSession, httpVars, browserVars, poolVars, cacheVars, pureVars,
          checkInterval>>

NoRead == [sub |-> 0, failed |-> FALSE, traffic_used |-> 0, traffic_limit |-> 0]
NoAnswer == [name |-> "none", code |-> "", status |-> 0]
NoStats == [called |-> FALSE]
NoCreate == [ended |-> FALSE, err |-> "", ret |-> 0]
\* `read` is the traffic read the call has classified, once ret is set.
IdleAdd ==
  [pc |-> "idle", username |-> 0, err |-> "", ret |-> 0,
   read |-> [failed |-> FALSE, traffic_used |-> 0, traffic_limit |-> 0]]

\* A step that is no call of addExistingSubUser or getStatistics and writes
\* nothing to the subusers table.
PoolIdle ==
  /\ stats' = NoStats
  /\ ccall' = NoCreate
  /\ UNCHANGED <<cacheVars, pureVars, checkInterval>>
  /\ UNCHANGED <<dbSubUsers, acall>>

\* ---------------------------------------------------------------- ProxyManager

\* usedMB >= limitMB, with usedMB = traffic_used / (1024 * 1024) and
\* limitMB = traffic_limit / (1024 * 1024): both divisions are by the same
\* power of two, exact in floating point, so the comparison is on the bytes.
UsedReachesLimit(t) == t.traffic_used >= t.traffic_limit

\* Mutant: the threshold comparison made strict.
UsedReachesThreshold_Strict(t) == t.traffic_used > WarningThresholdMB * BytesPerMB

\* usedMB >= thresholdMB: traffic_used / 2^20 >= threshold.
UsedReachesThreshold(t) == t.traffic_used >= WarningThresholdMB * BytesPerMB

\* Mutant: a near-limit sub-user is reported as usable (return false after
\* the near-limit notification).
CheckSubUserUsage_NearIsUsable(subs, i, t) ==
  IF t.failed
    THEN [subs |-> subs, events |-> <<>>, near |-> TRUE]
  ELSE LET upd == [subs EXCEPT ![i].trafficUsed = t.traffic_used,
                                ![i].lastChecked = "check"] IN
    IF UsedReachesLimit(t)
      THEN [subs |-> [upd EXCEPT ![i].status = "exhausted"],
            events |-> << <<"subuser-exhausted", i>> >>, near |-> TRUE]
    ELSE IF UsedReachesThreshold(t)
      THEN [subs |-> upd, events |-> << <<"subuser-near-limit", i>> >>, near |-> FALSE]
    ELSE [subs |-> upd, events |-> <<>>, near |-> FALSE]

\* Mutant: a failed quota read reports the sub-user as usable.
CheckSubUserUsage_FailureIsUsable(subs, i, t) ==
  IF t.failed
    THEN [subs |-> subs, events |-> <<>>, near |-> FALSE]
  ELSE LET upd == [subs EXCEPT ![i].trafficUsed = t.traffic_used,
                                ![i].lastChecked = "check"] IN
    IF UsedReachesLimit(t)
      THEN [subs |-> [upd EXCEPT ![i].status = "exhausted"],
            events |-> << <<"subuser-exhausted", i>> >>, near |-> TRUE]
    ELSE IF UsedReachesThreshold(t)
      THEN [subs |-> upd, events |-> << <<"subuser-near-limit", i>> >>, near |-> TRUE]
    ELSE [subs |-> upd, events |-> <<>>, near |-> FALSE]

\* checkSubUserUsage(subUser) from the answer t of getSubUserTraffic on:
\* the sub-user list after it, the events it emits, and its return value.
CheckSubUserUsage(subs, i, t) ==
  IF t.failed
    THEN [subs |-> subs, events |-> <<>>, near |-> TRUE]
  ELSE LET upd == [subs EXCEPT ![i].trafficUsed = t.traffic_used,
                                ![i].lastChecked = "check"] IN
    IF UsedReachesLimit(t)
      THEN [subs |-> [upd EXCEPT ![i].status = "exhausted"],
            events |-> << <<"subuser-exhausted", i>> >>, near |-> TRUE]
    ELSE IF UsedReachesThreshold(t)
      THEN [subs |-> upd, events |-> << <<"subuser-near-limit", i>> >>, near |-> TRUE]
    ELSE [subs |-> upd, events |-> <<>>, near |-> FALSE]

\* The read a check classified, as the observer variable records it.
ReadOf(i, t) ==
  [sub |-> i, failed |-> t.failed, traffic_used |-> t.traffic_used,
   traffic_limit |-> t.traffic_limit]

\* getProxyConfig's username: `user-{username}-country-{country}-session-{id}`
\* when a session id is given (includeFormatting defaults to true), else the
\* bare username.  A sub-user's username is its index here.
FormatUsername(i, sid) ==
  IF sid # 0 THEN <<"user", i, "country", "us", "session", sid>> ELSE <<i>>

IdleCall ==
  [pc |-> "idle", target |-> 0, sid |-> 0, events |-> <<>>, ret |-> 0,
   retStatus |-> "", err |-> "", path |-> "",
   cached |-> "none", cachedSub |-> 0, exAtStart |-> {}]

\* The loop taking the last active sub-user instead of the first.
NextActive_Last(subs, from) ==
  LET S == {j \in from..Len(subs) : subs[j].status = "active"} IN
  IF S = {} THEN 0 ELSE CHOOSE j \in S : \A k \in S : j >= k

\* The for-loop of getCurrentSubUser from position `from` on: the first
\* sub-user whose status is 'active', 0 when there is none.
NextActive(subs, from) ==
  LET S == {j \in from..Len(subs) : subs[j].status = "active"} IN
  IF S = {} THEN 0 ELSE CHOOSE j \in S : \A k \in S : j <= k

\* Mutant: the scan runs out and the call fails without the notification.
ScanFrom_Silent(c, subs, from) ==
  LET j == NextActive(subs, from) IN
  IF j # 0
    THEN [call |-> [c EXCEPT !.pc = "scan", !.target = j, !.path = "scan"],
          events |-> <<>>]
    ELSE [call |-> [c EXCEPT !.pc = "done", !.target = 0, !.path = "scan",
                             !.err = "ProxyError"],
          events |-> <<>>]

\* The loop reaches position `from`: either it awaits the check of the next
\* active sub-user, or it has run out: 'new-subuser-needed' is emitted and
\* the call fails with the ProxyError.
ScanFrom(c, subs, from) ==
  LET j == NextActive(subs, from) IN
  IF j # 0
    THEN [call |-> [c EXCEPT !.pc = "scan", !.target = j, !.path = "scan"],
          events |-> <<>>]
    ELSE [call |-> [c EXCEPT !.pc = "done", !.target = 0, !.path = "scan",
                             !.err = "ProxyError",
                             !.events = @ \o << <<"new-subuser-needed", 0>> >>],
          events |-> << <<"new-subuser-needed", 0>> >>]

\* getCurrentSubUser returns sub-user i to getProxyConfig, which formats the
\* login and returns.
Returned(c, subs, i) ==
  [c EXCEPT !.pc = "done", !.ret = i, !.retStatus = subs[i].status, !.target = 0]

Classify(t) ==
  IF t.failed THEN "fail"
  ELSE IF UsedReachesLimit(t) THEN "exhausted"
  ELSE IF UsedReachesThreshold(t) THEN "near"
  ELSE "ok"

\* getProxyConfig is called: getCurrentSubUser runs to its first await.
MgrBegin(c, sid, subs, cur) ==
  LET c0 == [IdleCall EXCEPT !.sid = sid,
               !.exAtStart = {j \in 1..Len(subs) : subs[j].status = "exhausted"}] IN
  IF cur # 0 /\ subs[cur].status = "active"
    THEN [call |-> [c0 EXCEPT !.pc = "cached", !.target = cur, !.cachedSub = cur],
          events |-> <<>>]
    ELSE ScanFrom(c0, subs, 1)

\* ---- the segments of a getProxyConfig call, for any caller p

\* What is recorded of a call: with its history fields (full) for the
\* callers of Callers, and its program state only for a transport client.
ClientCall(c) ==
  [IdleCall EXCEPT !.pc = c.pc, !.target = c.target, !.sid = c.sid, !.ret = c.ret,
                   !.err = c.err]
Keep(full, c) == IF full THEN c ELSE ClientCall(c)

\* getProxyConfig({sessionId: sid}) is called.
GetProxyConfigCalled(p, sid, full) ==
  /\ LET r == MgrBegin(mcall[p], sid, subUsers, currentSubUser) IN
       /\ mcall' = [mcall EXCEPT ![p] = Keep(full, r.call)]
       /\ emitted' = r.events
  /\ lastRead' = NoRead
  /\ PoolIdle
  /\ UNCHANGED <<subUsers, currentSubUser, timerPc, timerTarget, upstreamCreates>>

\* The check of the cached sub-user answers (types.ts:101-105).
CachedChecked(p, t, full) ==
  /\ mcall[p].pc = "cached"
  /\ LET c == mcall[p]
         k == CheckSubUserUsage(subUsers, c.target, t)
         c1 == [c EXCEPT !.events = @ \o k.events, !.cached = Classify(t)]
     IN
       /\ subUsers' = k.subs
       /\ lastRead' = ReadOf(c.target, t)
       /\ IF ~k.near
            THEN \* return this.currentSubUser: the field as it is now
                 /\ mcall' = [mcall EXCEPT ![p] =
                       Keep(full, Returned([c1 EXCEPT !.path = "reuse"], k.subs, currentSubUser))]
                 /\ emitted' = k.events
            ELSE LET r == ScanFrom(c1, k.subs, 1) IN
                 /\ mcall' = [mcall EXCEPT ![p] = Keep(full, r.call)]
                 /\ emitted' = k.events \o r.events
  /\ PoolIdle
  /\ UNCHANGED <<currentSubUser, timerPc, timerTarget, upstreamCreates>>

\* The check of a pool member answers (types.ts:108-116).
ScanChecked(p, t, full) ==
  /\ mcall[p].pc = "scan"
  /\ LET c == mcall[p]
         k == CheckSubUserUsage(subUsers, c.target, t)
         c1 == [c EXCEPT !.events = @ \o k.events]
     IN
       /\ subUsers' = k.subs
       /\ lastRead' = ReadOf(c.target, t)
       /\ IF ~k.near
            THEN /\ currentSubUser' = c.target
                 /\ mcall' = [mcall EXCEPT ![p] = Keep(full, Returned(c1, k.subs, c.target))]
                 /\ emitted' = k.events
            ELSE LET r == ScanFrom(c1, k.subs, c.target + 1) IN
                 /\ currentSubUser' = currentSubUser
                 /\ mcall' = [mcall EXCEPT ![p] = Keep(full, r.call)]
                 /\ emitted' = k.events \o r.events
  /\ PoolIdle
  /\ UNCHANGED <<timerPc, timerTarget, upstreamCreates>>

\* A step that runs no quota check and emits nothing.
Quiet == emitted' = <<>> /\ lastRead' = NoRead

\* A step in which the HTTP client does nothing.
HttpIdle ==
  /\ lastAnswer' = NoAnswer
  /\ UNCHANGED <<axiosInstance, httpSessionId, rotatedFrom, hcall>>

\* A step in which the transport clients do nothing.
ClientsIdle ==
  /\ HttpIdle
  /\ UNCHANGED browserVars

\* ---- getProxyConfig called from outside the transport clients

MgrStart(p) ==
  /\ mcall[p].pc \in {"idle", "done"}
  /\ GetProxyConfigCalled(p, 0, TRUE)
  /\ UNCHANGED nextSession
  /\ ClientsIdle

MgrCachedChecked(p, t) ==
  /\ p \in Callers
  /\ CachedChecked(p, t, TRUE)
  /\ UNCHANGED nextSession
  /\ ClientsIdle

MgrScanChecked(p, t) ==
  /\ p \in Callers
  /\ ScanChecked(p, t, TRUE)
  /\ UNCHANGED nextSession
  /\ ClientsIdle

\* database.saveSubUser: INSERT OR REPLACE on the primary key id (the
\* username, unique as well, is the id here).
SaveSubUser(db, su) == {r \in db : r.id # su.id} \cup {su}

\* Mutant: the created sub-user's quota is not taken from the response.
NewSubUser_NoQuota(id) ==
  [id |-> id, status |-> "active", trafficLimit |-> 0,
   trafficUsed |-> 0, lastChecked |-> "create"]

\* The sub-user createSubUser builds from the provisioning API's response.
\* The id is the number of the create call; lastChecked holds which
\* statement wrote the timestamp: "create" for the `new Date()` of
\* createSubUser and addExistingSubUser, "check" for checkSubUserUsage's.
NewSubUser(id) ==
  [id |-> id, status |-> "active", trafficLimit |-> CreatedLimitMB * BytesPerMB,
   trafficUsed |-> 0, lastChecked |-> "create"]

\* createSubUser: the provisioning API answers the one create call (ok), or
\* the call rejects and the error is logged and thrown on.
CreateSubUser(ok) ==
  /\ upstreamCreates < MaxSubUsers
  /\ upstreamCreates' = upstreamCreates + 1
  /\ IF ok
       THEN LET su == NewSubUser(upstreamCreates + 1) IN
            /\ subUsers' = Append(subUsers, su)
            /\ currentSubUser' = Len(subUsers) + 1
            /\ dbSubUsers' = SaveSubUser(dbSubUsers, su)
            /\ ccall' = [ended |-> TRUE, err |-> "", ret |-> su.id]
       ELSE /\ UNCHANGED <<subUsers, currentSubUser, dbSubUsers>>
            /\ ccall' = [ended |-> TRUE, err |-> "ApiError", ret |-> 0]
  /\ UNCHANGED <<cacheVars, pureVars, checkInterval>>
  /\ stats' = NoStats
  /\ acall' = acall
  /\ Quiet
  /\ UNCHANGED <<mcall, timerPc, timerTarget, nextSession>>
  /\ ClientsIdle

\* startMonitoring's interval callback, while the interval is set: it checks
\* the current sub-user, whatever its status.
MonitorTick ==
  /\ checkInterval
  /\ timerPc = "idle"
  /\ currentSubUser # 0
  /\ timerPc' = "checking"
  /\ timerTarget' = currentSubUser
  /\ Quiet
  /\ PoolIdle
  /\ UNCHANGED <<subUsers, currentSubUser, mcall, upstreamCreates, nextSession>>
  /\ ClientsIdle

\* The callback's check that writes no status.
MonitorChecked_NoMark(t) ==
  /\ timerPc = "checking"
  /\ subUsers' = subUsers
  /\ emitted' = CheckSubUserUsage(subUsers, timerTarget, t).events
  /\ lastRead' = ReadOf(timerTarget, t)
  /\ timerPc' = "idle"
  /\ timerTarget' = 0
  /\ PoolIdle
  /\ UNCHANGED <<currentSubUser, mcall, upstreamCreates, nextSession>>
  /\ ClientsIdle

\* The callback's awaited checkSubUserUsage is over.
MonitorChecked(t) ==
  /\ timerPc = "checking"
  /\ LET k == CheckSubUserUsage(subUsers, timerTarget, t) IN
       /\ subUsers' = k.subs
       /\ emitted' = k.events
       /\ lastRead' = ReadOf(timerTarget, t)
  /\ timerPc' = "idle"
  /\ timerTarget' = 0
  /\ PoolIdle
  /\ UNCHANGED <<currentSubUser, mcall, upstreamCreates, nextSession>>
  /\ ClientsIdle

\* stopMonitoring(): clearInterval; a check the callback is awaiting goes on.
StopMonitoring ==
  /\ checkInterval
  /\ checkInterval' = FALSE
  /\ Quiet
  /\ stats' = NoStats
  /\ ccall' = NoCreate
  /\ UNCHANGED <<dbSubUsers, acall, cacheVars, pureVars>>
  /\ UNCHANGED <<subUsers, currentSubUser, mcall, timerPc, timerTarget, upstreamCreates,
                 nextSession>>
  /\ ClientsIdle

\* ------------------------------------------------------------ retryWithBackoff

\* The errors as retryWithBackoff sees them: `code` is error.code ("" when
\* undefined) and `status` is error.response?.status (0 when undefined).
\* The AppError subclasses carry statusCode, and neither code nor response.
AxiosError(code, status) == [name |-> "AxiosError", code |-> code, status |-> status]
ProxyError == [name |-> "ProxyError", code |-> "", status |-> 0]
RateLimitError == [name |-> "RateLimitError", code |-> "", status |-> 0]
NoError == [name |-> "", code |-> "", status |-> 0]

\* isRetryable of retryWithBackoff (part_008:53-57).
IsRetryable(e) ==
  \/ e.code # "" /\ e.code \in RetryableErrors
  \/ e.status = 429
  \/ e.status = 503
  \/ e.status = 502

\* What the catch block of retryWithBackoff does with error e of attempt
\* number `attempt` (from 0): "retry" after the delay, or "throw".
RetryDecision_Always(e, attempt, maxRetries) ==
  IF attempt = maxRetries THEN "throw" ELSE "retry"

RetryDecision(e, attempt, maxRetries) ==
  IF attempt = maxRetries THEN "throw"
  ELSE IF IsRetryable(e) THEN "retry"
  ELSE "throw"

Min(a, b) == IF a <= b THEN a ELSE b
NextDelay_Uncapped(delay) == delay * BackoffMultiplier
NextDelay(delay) == Min(delay * BackoffMultiplier, MaxDelay)

\* ----------------------------------------------------------------- DecodoClient
\* Operations of the provider client in progress, and what they are.
DecodoProcs == {"d1", "d2"}
DecodoOps == {"list", "create", "update", "traffic", "delete"}
MaxLogins == 2

\* null for authToken and userId; the Authorization header: none, the API
\* key, or 'Bearer ' + token.
NoToken == 0
NoAuth == [scheme |-> "none", token |-> NoToken]
ApiKeyHeader == [scheme |-> "key", token |-> NoToken]
Bearer(token) == [scheme |-> "bearer", token |-> token]

IdleDecodo == [pc |-> "idle", op |-> "", request |-> "", auth |-> NoAuth, err |-> ""]

\* `!this.authToken || !this.userId` of ensureAuthenticated.
NeedsLogin_Always(token, uid) == TRUE
NeedsLogin(token, uid) == token = NoToken \/ uid = NoToken

\* The request an operation sends: with an API key getSubUserTraffic reads
\* the list of sub-users.
RequestOf(op) == IF usingApiKey /\ op = "traffic" THEN "list" ELSE op

\* An operation is called: ensureAuthenticated returns at once and the
\* request is sent with the header of the moment, or authenticate posts
\* /auth.
DecodoCalled(p, op) ==
  /\ dcall[p].pc \in {"idle", "done", "failed"}
  /\ dcall' = [dcall EXCEPT ![p] =
       IF usingApiKey \/ ~NeedsLogin(authToken, userId)
         THEN [pc |-> "request", op |-> op, request |-> RequestOf(op),
               auth |-> authorization, err |-> ""]
         ELSE [pc |-> "login", op |-> op, request |-> "auth", auth |-> authorization,
               err |-> ""]]
  /\ UNCHANGED <<usingApiKey, authToken, userId, authorization, issuedTokens>>
  /\ UNCHANGED <<mgrVars, nextSession, httpVars, browserVars, poolVars, cacheVars,
                 scraperVars, rcall, checkInterval>>

\* POST /auth answers: the token and the user id are stored, the header is
\* set and the operation's request is sent; or authenticate throws.
DecodoLoginAnswered(p, ok) ==
  /\ dcall[p].pc = "login"
  /\ IF ok
       THEN /\ issuedTokens < MaxLogins
            /\ issuedTokens' = issuedTokens + 1
            /\ authToken' = issuedTokens + 1
            /\ userId' = 1
            /\ authorization' = Bearer(issuedTokens + 1)
            /\ dcall' = [dcall EXCEPT ![p] =
                 [@ EXCEPT !.pc = "request", !.request = RequestOf(dcall[p].op),
                           !.auth = Bearer(issuedTokens + 1)]]
       ELSE /\ dcall' = [dcall EXCEPT ![p] =
                 [@ EXCEPT !.pc = "failed", !.request = "",
                           !.err = "Decodo authentication failed"]]
            /\ UNCHANGED <<authToken, userId, authorization, issuedTokens>>
  /\ UNCHANGED usingApiKey
  /\ UNCHANGED <<mgrVars, nextSession, httpVars, browserVars, poolVars, cacheVars,
                 scraperVars, rcall, checkInterval>>

\* The operation's request answers, or fails and the error is rethrown.
DecodoAnswered(p, ok) ==
  /\ dcall[p].pc = "request"
  /\ dcall' = [dcall EXCEPT ![p] =
       IF ok THEN [@ EXCEPT !.pc = "done", !.request = ""]
       ELSE [@ EXCEPT !.pc = "failed", !.request = "", !.err = "request failed"]]
  /\ UNCHANGED <<usingApiKey, authToken, userId, authorization, issuedTokens>>
  /\ UNCHANGED <<mgrVars, nextSession, httpVars, browserVars, poolVars, cacheVars,
                 scraperVars, rcall, checkInterval>>

\* A retryWithBackoff call on its own.  `attempt` and `delay` are the loop's
\* variables; `attempts` counts the calls of fn, `waits` lists the delays
\* waited, `lastError` is the error caught last with the attempt it is of.
MaxRetriesOption == 5
NoOutcome == [e |-> NoError, attempt |-> 0]
IdleRetry ==
  [pc |-> "idle", maxRetries |-> 0, attempt |-> 0, delay |-> InitialDelay,
   attempts |-> 0, waits |-> <<>>, lastError |-> NoOutcome, thrown |-> NoOutcome,
   result |-> 0]

\* What fn can throw: retryable by code, retryable by status, not retryable.
RetryErrors ==
  { AxiosError("ECONNRESET", 0), AxiosError("ERR_BAD_RESPONSE", 503),
    AxiosError("ERR_BAD_REQUEST", 404), AxiosError("ERR_BAD_RESPONSE", 500) }

\* retryWithBackoff(fn, {maxRetries}) is called: the loop begins and awaits
\* fn().
RetryCalled(maxRetries) ==
  /\ rcall.pc = "idle"
  /\ rcall' = [IdleRetry EXCEPT !.pc = "fn", !.maxRetries = maxRetries, !.attempts = 1]
  /\ UNCHANGED <<mgrVars, nextSession, httpVars, browserVars, poolVars, cacheVars,
                 scraperVars, decodoVars, checkInterval>>

\* fn() resolves: its result (the number of the attempt stands for it) is
\* returned.
RetryFnResolved ==
  /\ rcall.pc = "fn"
  /\ rcall' = [rcall EXCEPT !.pc = "returned", !.result = rcall.attempt + 1]
  /\ UNCHANGED <<mgrVars, nextSession, httpVars, browserVars, poolVars, cacheVars,
                 scraperVars, decodoVars, checkInterval>>

\* fn() rejects with e: the catch block throws, or begins to wait `delay`.
RetryFnRejected(e) ==
  /\ rcall.pc = "fn"
  /\ LET caught == [e |-> e, attempt |-> rcall.attempt] IN
       rcall' =
         IF RetryDecision(e, rcall.attempt, rcall.maxRetries) = "retry"
           THEN [rcall EXCEPT !.pc = "wait", !.lastError = caught,
                              !.waits = Append(@, rcall.delay)]
           ELSE [rcall EXCEPT !.pc = "thrown", !.lastError = caught, !.thrown = caught]
  /\ UNCHANGED <<mgrVars, nextSession, httpVars, browserVars, poolVars, cacheVars,
                 scraperVars, decodoVars, checkInterval>>

\* The wait is over: the next delay is computed and the loop goes round.
RetryWaited ==
  /\ rcall.pc = "wait"
  /\ rcall' = [rcall EXCEPT !.pc = "fn", !.delay = NextDelay(@), !.attempt = @ + 1,
                            !.attempts = @ + 1]
  /\ UNCHANGED <<mgrVars, nextSession, httpVars, browserVars, poolVars, cacheVars,
                 scraperVars, decodoVars, checkInterval>>

\* ------------------------------------------------------------------ HttpClient

NoInstance == [user |-> 0, sid |-> 0]

\* What axios answers a request with: a response (status 200), or it throws.
HttpFailures ==
  { AxiosError("ERR_BAD_REQUEST", 403), AxiosError("ERR_BAD_REQUEST", 404),
    AxiosError("ERR_BAD_REQUEST", 429), AxiosError("ERR_BAD_RESPONSE", 502),
    AxiosError("ERR_BAD_RESPONSE", 503), AxiosError("ECONNRESET", 0),
    AxiosError("ETIMEDOUT", 0), AxiosError("ECONNREFUSED", 0) }
HttpAnswers == {NoError} \cup HttpFailures

IdleHttp ==
  [pc |-> "idle", method |-> "", attempt |-> 0, delay |-> InitialDelay, user |-> 0,
   sid |-> 0, sentExhausted |-> FALSE, err |-> ""]

\* Mutant: a 403 is wrapped like every other failure.
HttpThrown_AlwaysProxyError(f) == ProxyError

\* The catch block of get/post (httpClient.ts:91-101): the error thrown for
\* the axios failure f.
HttpThrown(f) == IF f.status = 403 THEN RateLimitError ELSE ProxyError

\* An attempt of call c has thrown e: retryWithBackoff either waits `delay`
\* and goes round again (the delay is then multiplied), or throws to the caller.
HttpFailed(c, e) ==
  LET c1 == [c EXCEPT !.user = 0, !.sid = 0, !.sentExhausted = FALSE, !.err = e.name] IN
  IF RetryDecision(e, c.attempt, DefaultMaxRetries) = "retry"
    THEN [c1 EXCEPT !.pc = "wait"]
    ELSE [c1 EXCEPT !.pc = "done", !.method = ""]

\* client.get / client.post is called on the instance `inst`.
HttpSent(c, inst, subs) ==
  [c EXCEPT !.pc = "req", !.user = inst.user, !.sid = inst.sid,
            !.sentExhausted = (subs[inst.user].status = "exhausted")]

\* createAxiosInstance after its getProxyConfig call has ended (in this
\* step): on a config, the instance is created and stored and the request is
\* sent through it; on the manager's ProxyError the attempt fails.
HttpAfterManager(h, c) ==
  LET m == mcall'[h] IN
  /\ lastAnswer' = NoAnswer
  /\ IF m.pc # "done"
       THEN /\ hcall' = [hcall EXCEPT ![h] = [c EXCEPT !.pc = "mgr"]]
            /\ UNCHANGED <<axiosInstance, rotatedFrom>>
     ELSE IF m.err # ""
       THEN /\ hcall' = [hcall EXCEPT ![h] = HttpFailed(c, ProxyError)]
            /\ UNCHANGED <<axiosInstance, rotatedFrom>>
     ELSE LET inst == [user |-> m.ret, sid |-> m.sid] IN
            /\ axiosInstance' = inst
            /\ rotatedFrom' = 0
            /\ hcall' = [hcall EXCEPT ![h] = HttpSent(c, inst, subUsers')]

\* get(url) / post(url) is called, or the backoff delay of a retry is over:
\* retryWithBackoff runs fn: getAxiosInstance, then the request.
HttpAttempt(h, method) ==
  /\ hcall[h].pc \in {"idle", "done", "wait"}
  /\ hcall[h].pc = "wait" => method = hcall[h].method
  /\ LET c == IF hcall[h].pc = "wait"
                THEN [hcall[h] EXCEPT !.attempt = @ + 1, !.delay = NextDelay(@)]
                ELSE [IdleHttp EXCEPT !.method = method]
     IN
     /\ UNCHANGED browserVars
     /\ IF axiosInstance # NoInstance
       THEN /\ hcall' = [hcall EXCEPT ![h] = HttpSent(c, axiosInstance, subUsers)]
            /\ Quiet
            /\ lastAnswer' = NoAnswer
            /\ PoolIdle
            /\ UNCHANGED <<subUsers, currentSubUser, mcall, timerPc, timerTarget,
                           upstreamCreates, nextSession, axiosInstance, httpSessionId,
                           rotatedFrom>>
       ELSE /\ httpSessionId = 0 => nextSession < MaxSessions
            /\ LET sid == IF httpSessionId = 0 THEN nextSession + 1 ELSE httpSessionId IN
                 /\ httpSessionId' = sid
                 /\ nextSession' = IF httpSessionId = 0 THEN nextSession + 1 ELSE nextSession
                 /\ GetProxyConfigCalled(h, sid, FALSE)
            /\ HttpAfterManager(h, c)

HttpCachedChecked(h, t) ==
  /\ hcall[h].pc = "mgr"
  /\ CachedChecked(h, t, FALSE)
  /\ HttpAfterManager(h, hcall[h])
  /\ UNCHANGED <<nextSession, httpSessionId, browserVars>>

HttpScanChecked(h, t) ==
  /\ hcall[h].pc = "mgr"
  /\ ScanChecked(h, t, FALSE)
  /\ HttpAfterManager(h, hcall[h])
  /\ UNCHANGED <<nextSession, httpSessionId, browserVars>>

\* The request answers.  A 403 resets the client before the RateLimitError
\* is thrown; every other failure is wrapped in a ProxyError.
HttpAnswered(h, f) ==
  /\ hcall[h].pc = "req"
  /\ lastAnswer' = f
  /\ IF f = NoError
       THEN /\ hcall' = [hcall EXCEPT ![h] =
                 [@ EXCEPT !.pc = "done", !.method = "", !.user = 0, !.sid = 0,
                           !.sentExhausted = FALSE, !.err = ""]]
            /\ UNCHANGED <<axiosInstance, httpSessionId>>
       ELSE /\ hcall' = [hcall EXCEPT ![h] = HttpFailed(@, HttpThrown(f))]
            /\ IF f.status = 403
                 THEN axiosInstance' = NoInstance /\ httpSessionId' = 0
                 ELSE UNCHANGED <<axiosInstance, httpSessionId>>
  /\ mcall' = [mcall EXCEPT ![h] = IdleCall]
  /\ rotatedFrom' = rotatedFrom
  /\ Quiet
  /\ PoolIdle
  /\ UNCHANGED <<subUsers, currentSubUser, timerPc, timerTarget, upstreamCreates,
                 nextSession, browserVars>>

\* HttpClient.reset(), called by POST /api/proxy/rotate.
HttpReset ==
  /\ axiosInstance # NoInstance \/ httpSessionId # 0
  /\ axiosInstance' = NoInstance
  /\ httpSessionId' = 0
  /\ rotatedFrom' = IF axiosInstance # NoInstance THEN axiosInstance.user ELSE rotatedFrom
  /\ Quiet
  /\ lastAnswer' = NoAnswer
  /\ PoolIdle
  /\ UNCHANGED <<subUsers, currentSubUser, mcall, timerPc, timerTarget, upstreamCreates,
                 nextSession, hcall, browserVars>>

\* --------------------------------------------------------------- BrowserClient

\* Text is a sequence of one-character strings, so that split, replace,
\* toLowerCase and trim are computed.
UpperCase ==
  <<"A", "B", "C", "D", "E", "F", "G", "H", "I", "J", "K", "L", "M",
    "N", "O", "P", "Q", "R", "S", "T", "U", "V", "W", "X", "Y", "Z">>
LowerCase ==
  <<"a", "b", "c", "d", "e", "f", "g", "h", "i", "j", "k", "l", "m",
    "n", "o", "p", "q", "r", "s", "t", "u", "v", "w", "x", "y", "z">>
Digits == {"0", "1", "2", "3", "4", "5", "6", "7", "8", "9"}

ToLowerChar(ch) ==
  IF \E i \in 1..Len(UpperCase) : UpperCase[i] = ch
    THEN LowerCase[CHOOSE i \in 1..Len(UpperCase) : UpperCase[i] = ch]
    ELSE ch
\* String.prototype.toLowerCase
ToLowerCase(s) == [i \in 1..Len(s) |-> ToLowerChar(s[i])]
\* s.replace(/_/g, ' ')
UnderscoresToSpaces(s) == [i \in 1..Len(s) |-> IF s[i] = "_" THEN " " ELSE s[i]]

\* String.prototype.trim, for the space character
RECURSIVE TrimStart(_)
TrimStart(s) == IF s # <<>> /\ Head(s) = " " THEN TrimStart(Tail(s)) ELSE s
RECURSIVE TrimEnd(_)
TrimEnd(s) ==
  IF s # <<>> /\ s[Len(s)] = " " THEN TrimEnd(SubSeq(s, 1, Len(s) - 1)) ELSE s
Trim(s) == TrimEnd(TrimStart(s))

\* s.replace(/_\d{4}$/, '')
StripYearSuffix(s) ==
  LET n == Len(s) IN
  IF n >= 5 /\ s[n - 4] = "_" /\ \A i \in (n - 3)..n : s[i] \in Digits
    THEN SubSeq(s, 1, n - 5)
    ELSE s

\* s.split('/'): `cur` is the part being read.
RECURSIVE SplitFrom(_, _)
SplitFrom(s, cur) ==
  IF s = <<>> THEN <<cur>>
  ELSE IF Head(s) = "/" THEN <<cur>> \o SplitFrom(Tail(s), <<>>)
  ELSE SplitFrom(Tail(s), Append(cur, Head(s)))
Split(s) == SplitFrom(s, <<>>)

\* s.includes(sub)
Includes(s, sub) ==
  \E i \in 1..(Len(s) - Len(sub) + 1) : SubSeq(s, i, i + Len(sub) - 1) = sub

NoBrandAndName == [parsed |-> FALSE, brand |-> <<>>, name |-> <<>>]

\* extractBrandAndName (BaseProxyClient.ts:179-193); urlParts[4] and
\* urlParts[5] are the 5th and 6th parts.
ExtractBrandAndName(urlStr) ==
  LET urlParts == Split(urlStr) IN
  IF Len(urlParts) < 6 THEN NoBrandAndName
  ELSE [parsed |-> TRUE,
        brand |-> Trim(ToLowerCase(UnderscoresToSpaces(urlParts[5]))),
        name |-> Trim(ToLowerCase(UnderscoresToSpaces(StripYearSuffix(urlParts[6]))))]

\* validatePageContent(html, requestedUrl).isValid, from the og:url of the
\* html (<<>> when the page has none, or an empty one).
ValidatePageContent(ogUrl, requestedUrl) ==
  IF ogUrl = <<>> THEN TRUE
  ELSE LET requested == ExtractBrandAndName(requestedUrl)
           actual == ExtractBrandAndName(ogUrl)
       IN IF ~requested.parsed \/ ~actual.parsed THEN TRUE
          ELSE requested.brand = actual.brand /\ requested.name = actual.name

\* The URLs: https://p.c/Perfumes/{brand}/{name}, and a URL that is not a
\* perfume page.
Scheme == <<"h", "t", "t", "p", "s", ":">>
Host == <<"p", ".", "c">>
PerfumesPath == <<"P", "e", "r", "f", "u", "m", "e", "s">>
Creed == <<"C", "r", "e", "e", "d">>
Aventus == <<"A", "v", "e", "n", "t", "u", "s">>
Dior == <<"D", "i", "o", "r">>
Sauvage == <<"S", "a", "u", "v", "a", "g", "e">>
PerfumeUrl(brand, name) ==
  Scheme \o <<"/", "/">> \o Host \o <<"/">> \o PerfumesPath \o <<"/">> \o brand
    \o <<"/">> \o name
UrlAventus == PerfumeUrl(Creed, Aventus)
UrlSauvage == PerfumeUrl(Dior, Sauvage)
UrlIpCheck == Scheme \o <<"/", "/">> \o Host \o <<"/">>
\* The same perfume as UrlAventus, as a canonical URL may spell it.
UrlAventusCanonical ==
  PerfumeUrl(ToLowerCase(Creed), Aventus \o <<"_", "2", "0", "1", "0">>)
OtherPerfume(url) == IF url = UrlSauvage THEN UrlAventus ELSE UrlSauvage

\* The titles a page can have; the code looks for the two challenge texts.
ChallengeTitles == {"Just a moment...", "Attention Required! | Cloudflare"}
IsChallengeTitle(title) == title \in ChallengeTitles

\* A document: the URL whose navigation produced it, its title and the
\* og:url of its metadata (<<>> for none).
BlankDoc == [for |-> <<>>, title |-> "", og |-> <<>>]
PageTitles == {"Parfumo", "Just a moment..."}
OgUrls(url) ==
  IF url = UrlIpCheck THEN {<<>>}
  ELSE IF url = UrlAventus THEN {<<>>, url, UrlAventusCanonical, OtherPerfume(url)}
  ELSE {<<>>, url, OtherPerfume(url)}
\* What the site can answer a navigation to url with.
DocsFor(url) == {[for |-> url, title |-> t, og |-> o] : t \in PageTitles, o \in OgUrls(url)}

\* The errors of puppeteer calls, without and with a code retryWithBackoff
\* lists, and the two ScraperErrors of getPageContent.
PlainError == [name |-> "Error", code |-> "", status |-> 0]
CodedError == [name |-> "Error", code |-> "ECONNRESET", status |-> 0]
ChallengeError == [name |-> "ScraperError", code |-> "", status |-> 0]
MismatchError == [name |-> "ScraperError", code |-> "PAGE_MISMATCH", status |-> 0]
BrowserOutcomes == {NoError, PlainError, CodedError}

IdleBrowserCall ==
  [pc |-> "idle", url |-> <<>>, attempt |-> 0, delay |-> InitialDelay, phase |-> 1,
   user |-> 0, sid |-> 0, lbrowser |-> 0, page |-> 0, html |-> BlankDoc,
   err |-> "", code |-> ""]

\* An attempt of call c has thrown e: retryWithBackoff (maxRetries
\* BROWSER_MAX_RETRIES) waits and goes round again, or throws to the caller.
BrowserFailed(c, e) ==
  LET c1 == [c EXCEPT !.phase = 1, !.user = 0, !.sid = 0, !.lbrowser = 0, !.page = 0,
                      !.html = BlankDoc, !.err = e.name, !.code = e.code] IN
  IF RetryDecision(e, c.attempt, BrowserMaxRetries) = "retry"
    THEN [c1 EXCEPT !.pc = "wait"]
    ELSE [c1 EXCEPT !.pc = "done"]

\* getPageContent returns html.
BrowserReturned(c, html) ==
  [c EXCEPT !.pc = "done", !.phase = 1, !.user = 0, !.sid = 0, !.lbrowser = 0,
            !.page = 0, !.html = html, !.err = "", !.code = ""]

\* getPage once getBrowser has returned browser br: a page is opened when
\* there is no open active page, else the active page is navigated.
GetPageFrom(c, br) ==
  IF activePage = 0 \/ ~pages[activePage].open
    THEN [c EXCEPT !.pc = "newpage", !.lbrowser = br]
    ELSE [c EXCEPT !.pc = "goto", !.lbrowser = 0, !.page = activePage]

\* getBrowser after its getProxyConfig call has ended (in this step).
BrowserAfterManager(b, c) ==
  LET m == mcall'[b] IN
  bcall' = [bcall EXCEPT ![b] =
    IF m.pc # "done" THEN [c EXCEPT !.pc = "mgr"]
    ELSE IF m.err # "" THEN BrowserFailed(c, ProxyError)
    ELSE [c EXCEPT !.pc = "launch", !.user = m.ret, !.sid = m.sid]]

\* getPageContent(url) is called, or the backoff delay of a retry is over.
BrowserAttempt(b, url) ==
  /\ bcall[b].pc \in {"idle", "done", "wait"}
  /\ bcall[b].pc = "wait" => url = bcall[b].url
  /\ HttpIdle
  /\ UNCHANGED <<browsers, pages, browser, activePage>>
  /\ LET c == IF bcall[b].pc = "wait"
                THEN [bcall[b] EXCEPT !.attempt = @ + 1, !.delay = NextDelay(@),
                                      !.err = "", !.code = ""]
                ELSE [IdleBrowserCall EXCEPT !.url = url]
     IN
     IF browser # 0 /\ browsers[browser].connected
       THEN /\ bcall' = [bcall EXCEPT ![b] = GetPageFrom(c, browser)]
            /\ Quiet
            /\ PoolIdle
            /\ UNCHANGED <<subUsers, currentSubUser, mcall, timerPc, timerTarget,
                           upstreamCreates, nextSession, browserSessionId>>
       ELSE /\ browserSessionId = 0 => nextSession < MaxSessions
            /\ LET sid == IF browserSessionId = 0 THEN nextSession + 1
                          ELSE browserSessionId IN
                 /\ browserSessionId' = sid
                 /\ nextSession' =
                      IF browserSessionId = 0 THEN nextSession + 1 ELSE nextSession
                 /\ GetProxyConfigCalled(b, sid, FALSE)
            /\ BrowserAfterManager(b, c)

BrowserCachedChecked(b, t) ==
  /\ bcall[b].pc = "mgr"
  /\ CachedChecked(b, t, FALSE)
  /\ BrowserAfterManager(b, bcall[b])
  /\ HttpIdle
  /\ UNCHANGED <<nextSession, browsers, pages, browser, activePage, browserSessionId>>

BrowserScanChecked(b, t) ==
  /\ bcall[b].pc = "mgr"
  /\ ScanChecked(b, t, FALSE)
  /\ BrowserAfterManager(b, bcall[b])
  /\ HttpIdle
  /\ UNCHANGED <<nextSession, browsers, pages, browser, activePage, browserSessionId>>

\* A step of the browser client that calls nothing of the manager.
ManagerIdle ==
  /\ Quiet
  /\ PoolIdle
  /\ UNCHANGED <<subUsers, currentSubUser, timerPc, timerTarget, upstreamCreates,
                 nextSession>>

\* puppeteerExtra.launch answers: the browser is stored with its proxy auth,
\* and getPage goes on.
BrowserLaunched(b, r) ==
  /\ bcall[b].pc = "launch"
  /\ r = NoError => Len(browsers) < MaxBrowsers
  /\ mcall' = [mcall EXCEPT ![b] = IdleCall]
  /\ IF r = NoError
       THEN /\ browsers' = Append(browsers, [connected |-> TRUE, user |-> bcall[b].user,
                                             sid |-> bcall[b].sid])
            /\ browser' = Len(browsers) + 1
            /\ bcall' = [bcall EXCEPT ![b] = GetPageFrom(@, Len(browsers) + 1)]
       ELSE /\ bcall' = [bcall EXCEPT ![b] = BrowserFailed(@, r)]
            /\ UNCHANGED <<browsers, browser>>
  /\ ManagerIdle
  /\ HttpIdle
  /\ UNCHANGED <<pages, activePage, browserSessionId>>

\* browser.newPage answers: the page becomes the active page.
BrowserPageCreated(b, r) ==
  /\ bcall[b].pc = "newpage"
  /\ r = NoError => Len(pages) < MaxPages /\ browsers[bcall[b].lbrowser].connected
  /\ IF r = NoError
       THEN /\ pages' = Append(pages, [open |-> TRUE, owner |-> bcall[b].lbrowser,
                                       doc |-> BlankDoc])
            /\ activePage' = Len(pages) + 1
            /\ bcall' = [bcall EXCEPT ![b] = [@ EXCEPT !.pc = "setup"]]
       ELSE /\ bcall' = [bcall EXCEPT ![b] = BrowserFailed(@, r)]
            /\ UNCHANGED <<pages, activePage>>
  /\ ManagerIdle
  /\ HttpIdle
  /\ UNCHANGED <<mcall, browsers, browser, browserSessionId>>

\* authenticate, setUserAgent and setExtraHTTPHeaders of this.activePage
\* have answered (one step for the three awaits); getPage returns
\* this.activePage as it is now, and getPageContent calls goto on it.
BrowserPageSetup(b, r) ==
  /\ bcall[b].pc = "setup"
  /\ r = NoError => activePage # 0 /\ pages[activePage].open
  /\ bcall' = [bcall EXCEPT ![b] =
       IF r = NoError THEN [@ EXCEPT !.pc = "goto", !.lbrowser = 0, !.page = activePage]
       ELSE BrowserFailed(@, r)]
  /\ ManagerIdle
  /\ HttpIdle
  /\ UNCHANGED <<mcall, browsers, pages, browser, activePage, browserSessionId>>

\* page.goto answers: on success the page shows the document d.
BrowserNavigated(b, r, d) ==
  /\ bcall[b].pc = "goto"
  /\ r = NoError => pages[bcall[b].page].open /\ d \in DocsFor(bcall[b].url)
  /\ r # NoError => d = BlankDoc
  /\ IF r = NoError
       THEN /\ pages' = [pages EXCEPT ![bcall[b].page].doc = d]
            /\ bcall' = [bcall EXCEPT ![b] = [@ EXCEPT !.pc = "content"]]
       ELSE /\ bcall' = [bcall EXCEPT ![b] = BrowserFailed(@, r)]
            /\ UNCHANGED pages
  /\ ManagerIdle
  /\ HttpIdle
  /\ UNCHANGED <<mcall, browsers, browser, activePage, browserSessionId>>

\* page.content answers with the document the page shows now.
BrowserContentRead(b, r) ==
  /\ bcall[b].pc = "content"
  /\ r = NoError => pages[bcall[b].page].open
  /\ bcall' = [bcall EXCEPT ![b] =
       IF r = NoError
         THEN [bcall[b] EXCEPT !.pc = "title", !.html = pages[bcall[b].page].doc]
         ELSE BrowserFailed(bcall[b], r)]
  /\ ManagerIdle
  /\ HttpIdle
  /\ UNCHANGED <<mcall, browsers, pages, browser, activePage, browserSessionId>>

\* reset() from `if (this.browser && this.browser.connected)` on: the
\* browser's close is awaited, or there is nothing to close and the session
\* id is dropped, reset ends and getPageContent throws the mismatch error.
ResetBrowserPart(c) ==
  IF browser # 0 /\ browsers[browser].connected
    THEN [call |-> [c EXCEPT !.pc = "rclose2", !.lbrowser = browser, !.page = 0],
          ended |-> FALSE]
    ELSE [call |-> BrowserFailed(c, MismatchError), ended |-> TRUE]

\* reset() is called: the active page's close is awaited when it is open.
ResetBegin(c) ==
  IF activePage # 0 /\ pages[activePage].open
    THEN [call |-> [c EXCEPT !.pc = "rclose1", !.page = activePage], ended |-> FALSE]
    ELSE ResetBrowserPart(c)

PerfumesMarker == <<"/">> \o PerfumesPath \o <<"/">>

\* page.title answers.  A challenge title waits for the challenge (first
\* read) or throws (read after the wait); otherwise a perfume URL's html is
\* validated, a mismatch starts reset(), and valid html is returned.
BrowserTitleRead(b, r) ==
  /\ bcall[b].pc = "title"
  /\ r = NoError => pages[bcall[b].page].open
  /\ LET c == bcall[b] IN
     IF r # NoError
       THEN /\ bcall' = [bcall EXCEPT ![b] = BrowserFailed(c, r)]
            /\ UNCHANGED browserSessionId
     ELSE IF IsChallengeTitle(pages[c.page].doc.title)
       THEN /\ bcall' = [bcall EXCEPT ![b] =
                 IF c.phase = 1 THEN [c EXCEPT !.pc = "challenge"]
                 ELSE BrowserFailed(c, ChallengeError)]
            /\ UNCHANGED browserSessionId
     ELSE IF Includes(c.url, PerfumesMarker) /\ ~ValidatePageContent(c.html.og, c.url)
       THEN LET k == ResetBegin(c) IN
            /\ bcall' = [bcall EXCEPT ![b] = k.call]
            /\ browserSessionId' = IF k.ended THEN 0 ELSE browserSessionId
     ELSE /\ bcall' = [bcall EXCEPT ![b] = BrowserReturned(c, c.html)]
          /\ UNCHANGED browserSessionId
  /\ ManagerIdle
  /\ HttpIdle
  /\ UNCHANGED <<mcall, browsers, pages, browser, activePage>>

\* page.waitForNavigation answers or times out (the rejection is caught):
\* the page has navigated to d, or shows what it showed.
BrowserChallengeWaited(b, nav, d) ==
  /\ bcall[b].pc = "challenge"
  /\ IF nav
       THEN /\ pages[bcall[b].page].open
            /\ d \in DocsFor(bcall[b].url)
            /\ pages' = [pages EXCEPT ![bcall[b].page].doc = d]
       ELSE /\ d = BlankDoc
            /\ UNCHANGED pages
  /\ bcall' = [bcall EXCEPT ![b] = [@ EXCEPT !.pc = "content", !.phase = 2]]
  /\ ManagerIdle
  /\ HttpIdle
  /\ UNCHANGED <<mcall, browsers, browser, activePage, browserSessionId>>

\* reset(): activePage.close() answers.  On success activePage is set to
\* null and reset goes on; a rejection is caught and ends reset().
BrowserResetPageClosed(b, r) ==
  /\ bcall[b].pc = "rclose1"
  /\ LET c == bcall[b] IN
     IF r = NoError
       THEN LET k == ResetBrowserPart(c) IN
            /\ pages' = [pages EXCEPT ![c.page].open = FALSE, ![c.page].doc = BlankDoc]
            /\ activePage' = 0
            /\ bcall' = [bcall EXCEPT ![b] = k.call]
            /\ browserSessionId' = IF k.ended THEN 0 ELSE browserSessionId
       ELSE /\ bcall' = [bcall EXCEPT ![b] = BrowserFailed(c, MismatchError)]
            /\ UNCHANGED <<pages, activePage, browserSessionId>>
  /\ ManagerIdle
  /\ HttpIdle
  /\ UNCHANGED <<mcall, browsers, browser>>

\* The pages after browser i has gone: its pages are closed.
PagesWithout(i) ==
  [j \in 1..Len(pages) |->
     IF pages[j].owner = i THEN [pages[j] EXCEPT !.open = FALSE, !.doc = BlankDoc]
     ELSE pages[j]]

\* reset(): browser.close() answers.  On success browser is set to null and
\* the session id is dropped; a rejection is caught and ends reset().
BrowserResetBrowserClosed(b, r) ==
  /\ bcall[b].pc = "rclose2"
  /\ LET c == bcall[b] IN
     IF r = NoError
       THEN /\ browsers' = [browsers EXCEPT ![c.lbrowser].connected = FALSE]
            /\ pages' = PagesWithout(c.lbrowser)
            /\ browser' = 0
            /\ browserSessionId' = 0
       ELSE UNCHANGED <<browsers, pages, browser, browserSessionId>>
  /\ bcall' = [bcall EXCEPT ![b] = BrowserFailed(@, MismatchError)]
  /\ ManagerIdle
  /\ HttpIdle
  /\ UNCHANGED <<mcall, activePage>>

\* The browser process of browser i dies: browser.connected turns false.
BrowserCrashed(i) ==
  /\ i \in 1..Len(browsers)
  /\ browsers[i].connected
  /\ browsers' = [browsers EXCEPT ![i].connected = FALSE]
  /\ pages' = PagesWithout(i)
  /\ ManagerIdle
  /\ HttpIdle
  /\ UNCHANGED <<mcall, browser, activePage, browserSessionId, bcall>>

\* ------------------------------------------------------------- specifications

\* ------------------------------------------------- DatabaseService: the caches

\* Text is a sequence of characters; SQLite compares TEXT values byte by
\* byte (BINARY collation), a proper prefix being the lesser.
Ascii ==
  (" " :> 32) @@ ("-" :> 45) @@ ("." :> 46) @@ ("0" :> 48) @@ ("1" :> 49) @@
  ("2" :> 50) @@ ("3" :> 51) @@ ("4" :> 52) @@ ("5" :> 53) @@ ("6" :> 54) @@
  ("7" :> 55) @@ ("8" :> 56) @@ ("9" :> 57) @@ (":" :> 58) @@ ("T" :> 84) @@
  ("Z" :> 90)
RECURSIVE TextLess(_, _)
TextLess(a, b) ==
  IF b = <<>> THEN FALSE
  ELSE IF a = <<>> THEN TRUE
  ELSE IF Ascii[Head(a)] # Ascii[Head(b)] THEN Ascii[Head(a)] < Ascii[Head(b)]
  ELSE TextLess(Tail(a), Tail(b))

\* The date and the hour of the clock value c: the clock counts quarter
\* days after 2026-11-01T00:00:00Z.
DigitChars == <<"0", "1", "2", "3", "4", "5", "6", "7", "8", "9">>
Pad2(n) == <<DigitChars[(n \div 10) + 1], DigitChars[(n % 10) + 1]>>
DateText(c) == <<"2", "0", "2", "6", "-", "1", "1", "-">> \o Pad2(1 + (c \div 4))
HourText(c) == Pad2((c % 4) * 6)

\* Date.prototype.toISOString: YYYY-MM-DDTHH:mm:ss.sssZ.
ToISOString(c) ==
  DateText(c) \o <<"T">> \o HourText(c)
    \o <<":", "0", "0", ":", "0", "0", ".", "0", "0", "0", "Z">>

\* SQLite's datetime('now'): YYYY-MM-DD HH:MM:SS.
DatetimeNow(c) ==
  DateText(c) \o <<" ">> \o HourText(c) \o <<":", "0", "0", ":", "0", "0">>

\* The perfumes that are saved and read (their year is null), the search
\* query, and the cache durations given to the save methods, in quarter days.
Perfumes ==
  { [brand |-> Creed, name |-> Aventus, url |-> UrlAventus],
    [brand |-> Dior, name |-> Sauvage, url |-> UrlSauvage] }
Queries == {Aventus}
CacheDurations == {1, 2}

NoGet == [op |-> "", hit |-> FALSE, cached_until |-> <<>>]

\* A step that is no cache read.
NoCacheRead ==
  /\ lastGet' = NoGet
  /\ UNCHANGED searchCall
  /\ UNCHANGED <<mgrVars, nextSession, httpVars, browserVars, poolVars, pureVars,
                 checkInterval>>

\* `cached_until > datetime('now')` at clock value c: both sides are TEXT
\* (an ISO string is no number, so the DATETIME column keeps it as text).
Unexpired(until, c) == TextLess(DatetimeNow(c), until)

\* Time passes.
ClockTick ==
  /\ clock < MaxClock
  /\ clock' = clock + 1
  /\ UNCHANGED <<perfumes, searchCache>>
  /\ NoCacheRead

\* savePerfume(perfume, cacheDuration): INSERT OR REPLACE, the row with the
\* same url gives way (UNIQUE(brand, name, year) never conflicts on a null
\* year: SQLite holds NULLs distinct).
SavePerfume(pf, d) ==
  /\ perfumes' =
       {r \in perfumes : r.url # pf.url}
         \cup {[brand |-> pf.brand, name |-> pf.name, url |-> pf.url,
                cached_until |-> ToISOString(clock + d)]}
  /\ UNCHANGED <<clock, searchCache>>
  /\ NoCacheRead

\* The answer of a read whose query selected the rows `rows`: one of them,
\* or null.
ReadAnswers(op, rows) ==
  IF rows = {} THEN {[op |-> op, hit |-> FALSE, cached_until |-> <<>>]}
  ELSE {[op |-> op, hit |-> TRUE, cached_until |-> r.cached_until] : r \in rows}

\* getPerfume(brand, name).
GetPerfume(pf) ==
  /\ lastGet' \in ReadAnswers("getPerfume",
       {r \in perfumes : r.brand = pf.brand /\ r.name = pf.name
                           /\ Unexpired(r.cached_until, clock)})
  /\ UNCHANGED <<clock, perfumes, searchCache, searchCall>>
  /\ UNCHANGED <<mgrVars, nextSession, httpVars, browserVars, poolVars, pureVars,
                 checkInterval>>

\* getPerfumeByUrl(url).
GetPerfumeByUrl(url) ==
  /\ lastGet' \in ReadAnswers("getPerfumeByUrl",
       {r \in perfumes : r.url = url /\ Unexpired(r.cached_until, clock)})
  /\ UNCHANGED <<clock, perfumes, searchCache, searchCall>>
  /\ UNCHANGED <<mgrVars, nextSession, httpVars, browserVars, poolVars, pureVars,
                 checkInterval>>

\* saveSearchCache(query, results, cacheDuration): a plain INSERT, with
\* cached_at = datetime('now').
SearchCacheRow(q, results, d) ==
  [query |-> q, results |-> results, cached_at |-> DatetimeNow(clock),
   cached_until |-> ToISOString(clock + d)]

SaveSearchCache(q, results, d) ==
  /\ Len(searchCache) < MaxSearchRows
  /\ searchCache' = Append(searchCache, SearchCacheRow(q, results, d))
  /\ UNCHANGED <<clock, perfumes>>
  /\ NoCacheRead

\* getCachedSearch(query): ORDER BY cached_at DESC LIMIT 1 over the rows
\* the filter lets through (any of the rows with the greatest cached_at).
LatestSearchRows(q) ==
  LET S == {k \in 1..Len(searchCache) :
              searchCache[k].query = q /\ Unexpired(searchCache[k].cached_until, clock)}
      Latest == {k \in S : \A j \in S :
                   ~TextLess(searchCache[k].cached_at, searchCache[j].cached_at)}
  IN {searchCache[k] : k \in Latest}

GetCachedSearch(q) ==
  /\ lastGet' \in ReadAnswers("getCachedSearch", LatestSearchRows(q))
  /\ UNCHANGED <<clock, perfumes, searchCache, searchCall>>
  /\ UNCHANGED <<mgrVars, nextSession, httpVars, browserVars, poolVars, pureVars,
                 checkInterval>>

\* SelectSeq with the test `cached_until < datetime('now')` negated: the
\* rows cleanupExpiredCache keeps.
RECURSIVE KeptRows(_, _)
KeptRows(rows, c) ==
  IF rows = <<>> THEN <<>>
  ELSE IF TextLess(Head(rows).cached_until, DatetimeNow(c))
    THEN KeptRows(Tail(rows), c)
    ELSE <<Head(rows)>> \o KeptRows(Tail(rows), c)

\* cleanupExpiredCache: DELETE ... WHERE cached_until < datetime('now') on
\* both tables.
CleanupExpiredCache ==
  /\ perfumes' = {r \in perfumes : ~TextLess(r.cached_until, DatetimeNow(clock))}
  /\ searchCache' = KeptRows(searchCache, clock)
  /\ UNCHANGED clock
  /\ NoCacheRead

\* ------------------------------------------- ProxyManager: the pool and its store

\* Sub-users that exist at the provider without having been created by this
\* program, and usernames that name no sub-user of the provider.  The
\* sub-users createSubUser creates have the ids 1, 2, ...
UpstreamAccounts == {10}
UnknownAccounts == {11}

\* created_at of a sub-user: the provider's creation time.  The accounts
\* created elsewhere are the oldest, the created ones follow in order.
CreatedAt(id) == IF id \in UpstreamAccounts THEN 0 ELSE id

\* database.getSubUsers: SELECT * FROM subusers ORDER BY created_at DESC.
RECURSIVE GetSubUsers(_)
GetSubUsers(db) ==
  IF db = {} THEN <<>>
  ELSE LET r == CHOOSE r \in db : \A q \in db : CreatedAt(q.id) <= CreatedAt(r.id) IN
       <<r>> \o GetSubUsers(db \ {r})

\* this.subUsers.set(su.id, su): a Map keeps the position of a key it has.
MapSet(subs, su) ==
  IF \E i \in 1..Len(subs) : subs[i].id = su.id
    THEN [i \in 1..Len(subs) |-> IF subs[i].id = su.id THEN su ELSE subs[i]]
    ELSE Append(subs, su)

\* Mutant: addExistingSubUser without the exhausted branch.
ExistingSubUser_AlwaysActive(id, t) ==
  [id |-> id, status |-> "active",
   trafficLimit |-> t.traffic_limit, trafficUsed |-> t.traffic_used,
   lastChecked |-> "create"]

\* The sub-user addExistingSubUser builds from the traffic read t
\* (types.ts:226-249).
ExistingSubUser(id, t) ==
  [id |-> id, status |-> IF UsedReachesLimit(t) THEN "exhausted" ELSE "active",
   trafficLimit |-> t.traffic_limit, trafficUsed |-> t.traffic_used,
   lastChecked |-> "create"]

\* A step of the pool operations below: no getProxyConfig call, no monitoring
\* callback and no transport client moves.
OthersIdle ==
  /\ Quiet
  /\ ccall' = NoCreate
  /\ UNCHANGED <<cacheVars, pureVars, checkInterval>>
  /\ UNCHANGED <<mcall, timerPc, timerTarget, upstreamCreates, nextSession>>
  /\ ClientsIdle

\* addExistingSubUser(username, password) is called: the username is looked
\* up in the database's rows; it then awaits decodoClient.getSubUsers.
AddExistingCalled(u) ==
  /\ acall.pc \in {"idle", "done"}
  /\ acall' = IF \E r \in dbSubUsers : r.id = u
                THEN [IdleAdd EXCEPT !.pc = "done", !.username = u, !.err = "ValidationError"]
                ELSE [IdleAdd EXCEPT !.pc = "list", !.username = u]
  /\ stats' = NoStats
  /\ UNCHANGED <<subUsers, currentSubUser, dbSubUsers>>
  /\ OthersIdle

\* decodoClient.getSubUsers answers (ok) or rejects: the username is looked
\* up in the provider's list; it then awaits getSubUserTraffic.
AddExistingListed(ok) ==
  /\ acall.pc = "list"
  /\ acall' = IF ~ok THEN [acall EXCEPT !.pc = "done", !.err = "ApiError"]
              ELSE IF acall.username \notin UpstreamAccounts
                THEN [acall EXCEPT !.pc = "done", !.err = "NotFoundError"]
              ELSE [acall EXCEPT !.pc = "traffic"]
  /\ stats' = NoStats
  /\ UNCHANGED <<subUsers, currentSubUser, dbSubUsers>>
  /\ OthersIdle

\* getSubUserTraffic answers t: the sub-user is classified, put into the
\* pool and saved.  currentSubUser is left as it is.
AddExistingTraffic(t) ==
  /\ acall.pc = "traffic"
  /\ IF t.failed
       THEN /\ acall' = [acall EXCEPT !.pc = "done", !.err = "ApiError"]
            /\ UNCHANGED <<subUsers, dbSubUsers>>
       ELSE LET su == ExistingSubUser(acall.username, t) IN
            /\ subUsers' = MapSet(subUsers, su)
            /\ dbSubUsers' = SaveSubUser(dbSubUsers, su)
            /\ acall' = [acall EXCEPT !.pc = "done", !.ret = su.id, !.read = t]
  /\ stats' = NoStats
  /\ UNCHANGED currentSubUser
  /\ OthersIdle

\* What the provider's list says of one sub-user in loadSubUsers: nothing
\* (the sub-user is not in the list), or its status, traffic_bytes (0 when
\* the field is missing) and traffic_limit (0 when missing).
Absent == [status |-> "absent", traffic_bytes |-> 0, traffic_limit |-> 0]
ApiEntries ==
  { [status |-> "active", traffic_bytes |-> 0, traffic_limit |-> 1000 * BytesPerMB],
    [status |-> "exhausted", traffic_bytes |-> WarningThresholdMB * BytesPerMB,
     traffic_limit |-> 0],
    [status |-> "disabled", traffic_bytes |-> WarningThresholdMB * BytesPerMB - 1,
     traffic_limit |-> 0] }

\* The update of a loaded sub-user from its entry e of the provider's list
\* (types.ts:286-296).
SyncedSubUser(su, e) ==
  IF e = Absent THEN su
  ELSE [su EXCEPT !.status = IF e.status \in {"active", "exhausted", "error"}
                               THEN e.status ELSE @,
                  !.trafficUsed = e.traffic_bytes,
                  !.trafficLimit = IF e.traffic_limit # 0 THEN e.traffic_limit ELSE @]

\* The process is restarted and startServer runs loadSubUsers before it
\* serves anything: the memory of the old process is gone, the pool is read
\* from the database and updated from the provider's list `api` (one entry
\* per loaded sub-user), unless the list call fails (synced = FALSE).
LoadSubUsers(synced, api) ==
  /\ LET loaded == GetSubUsers(dbSubUsers) IN
       subUsers' = IF synced
                     THEN [i \in 1..Len(loaded) |-> SyncedSubUser(loaded[i], api[i])]
                     ELSE loaded
  /\ currentSubUser' = 0
  /\ mcall' = [p \in Procs |-> IdleCall]
  /\ timerPc' = "idle"
  /\ timerTarget' = 0
  /\ Quiet
  /\ axiosInstance' = NoInstance
  /\ httpSessionId' = 0
  /\ rotatedFrom' = 0
  /\ hcall' = [h \in HttpProcs |-> IdleHttp]
  /\ lastAnswer' = NoAnswer
  /\ browsers' = <<>>
  /\ pages' = <<>>
  /\ browser' = 0
  /\ activePage' = 0
  /\ browserSessionId' = 0
  /\ bcall' = [b \in BrowserProcs |-> IdleBrowserCall]
  /\ acall' = IdleAdd
  /\ stats' = NoStats
  /\ ccall' = NoCreate
  /\ checkInterval' = TRUE
  /\ UNCHANGED <<dbSubUsers, upstreamCreates, nextSession, cacheVars, pureVars>>

\* n / (1024 * 1024): the division by a power of two is exact in floating
\* point; the quotient is given as its whole MB and the bytes beyond them.
InMB(n) == [whole |-> n \div BytesPerMB, bytes |-> n % BytesPerMB]

\* The sum of two byte counts given in that form (a JavaScript number holds
\* the pool's sums exactly; they are beyond the integers of the checker).
SumMB(a, b) ==
  [whole |-> a.whole + b.whole + (a.bytes + b.bytes) \div BytesPerMB,
   bytes |-> (a.bytes + b.bytes) % BytesPerMB]

\* The loop of getStatistics: the sums of trafficUsed and of trafficLimit,
\* divided by 1024 * 1024.
RECURSIVE TotalUsed(_)
TotalUsed(subs) ==
  IF subs = <<>> THEN InMB(0)
  ELSE SumMB(InMB(Head(subs).trafficUsed), TotalUsed(Tail(subs)))
RECURSIVE TotalLimit(_)
TotalLimit(subs) ==
  IF subs = <<>> THEN InMB(0)
  ELSE SumMB(InMB(Head(subs).trafficLimit), TotalLimit(Tail(subs)))

\* Mutant: the exhausted sub-users are counted as active too.
GetStatistics_CountsAll(subs, cur) ==
  [called |-> TRUE,
   totalSubUsers |-> Len(subs),
   activeSubUsers |-> Cardinality({i \in 1..Len(subs) : subs[i].status # "error"}),
   exhaustedSubUsers |-> Cardinality({i \in 1..Len(subs) : subs[i].status = "exhausted"}),
   totalTrafficUsedMB |-> TotalUsed(subs),
   totalTrafficLimitMB |-> TotalLimit(subs),
   currentSubUser |-> IF cur = 0 THEN 0 ELSE subs[cur].id]

\* getStatistics (types.ts:335-363); currentSubUser is the username, 0 for null.
GetStatistics(subs, cur) ==
  [called |-> TRUE,
   totalSubUsers |-> Len(subs),
   activeSubUsers |-> Cardinality({i \in 1..Len(subs) : subs[i].status = "active"}),
   exhaustedSubUsers |-> Cardinality({i \in 1..Len(subs) : subs[i].status = "exhausted"}),
   totalTrafficUsedMB |-> TotalUsed(subs),
   totalTrafficLimitMB |-> TotalLimit(subs),
   currentSubUser |-> IF cur = 0 THEN 0 ELSE subs[cur].id]

\* getStatistics() is called.
GetStatisticsCalled ==
  /\ stats' = GetStatistics(subUsers, currentSubUser)
  /\ UNCHANGED <<subUsers, currentSubUser, dbSubUsers, acall>>
  /\ OthersIdle

\* ---------------------------------------------------------------- HtmlExtractor
\* A text is a sequence of tokens: single characters, and the words the
\* patterns look for (a dimension's label, "Ratings") as one token each.
Labels == {"Scent", "Longevity", "Sillage", "Bottle", "PriceValue"}

\* The words of a text that the label's pattern matches; the label of
\* price-value is '(?:Value for money|Price[-\s]*Value|Pricing)'.
LabelWords(label) ==
  IF label = "PriceValue" THEN {"Value for money", "Pricing"} ELSE {label}

WhiteSpace == {" ", "\n"}
DigitOrComma == Digits \cup {","}

\* A JavaScript number: NaN, or n (a rating value is held in hundredths).
NaN == [nan |-> TRUE, n |-> 0]
Num(n) == [nan |-> FALSE, n |-> n]

\* null, and a { value, count } result.
NoMatch == [found |-> FALSE, value |-> NaN, count |-> NaN]
Match(value, count) == [found |-> TRUE, value |-> value, count |-> count]

DigitValue(c) == CHOOSE n \in 0..9 : DigitChars[n + 1] = c

RECURSIVE DigitsValue(_)
DigitsValue(s) ==
  IF s = <<>> THEN 0
  ELSE DigitsValue(SubSeq(s, 1, Len(s) - 1)) * 10 + DigitValue(s[Len(s)])

\* The index after the longest run of tokens of S that starts at t[i].
RECURSIVE RunEnd(_, _, _)
RunEnd(t, i, S) ==
  IF i <= Len(t) /\ t[i] \in S THEN RunEnd(t, i + 1, S) ELSE i

\* The index after the longest run of non-digits that starts at t[i]: [^\d]*.
RECURSIVE NonDigitEnd(_, _)
NonDigitEnd(t, i) ==
  IF i <= Len(t) /\ t[i] \notin Digits THEN NonDigitEnd(t, i + 1) ELSE i

IsNoComma(c) == c # ","

\* parseInt(s.replace(/,/g, ''), 10): the leading digits, NaN without one.
ParseInt(s) ==
  LET d == SelectSeq(s, IsNoComma)
      k == RunEnd(d, 1, Digits)
  IN IF k = 1 THEN NaN ELSE Num(DigitsValue(SubSeq(d, 1, k - 1)))

\* The first two decimals of a digit string, as hundredths.
Hundredths(dec) ==
  IF dec = <<>> THEN 0
  ELSE IF Len(dec) = 1 THEN DigitValue(dec[1]) * 10
  ELSE DigitValue(dec[1]) * 10 + DigitValue(dec[2])

\* parseFloat(s): an optional sign, digits, an optional fraction; NaN when no
\* digit starts it.  The result is in hundredths.
ParseFloat(s) ==
  LET neg == s # <<>> /\ s[1] = "-"
      i0 == IF neg THEN 2 ELSE 1
      a == RunEnd(s, i0, Digits)
      dot == a <= Len(s) /\ s[a] = "."
      b == IF dot THEN RunEnd(s, a + 1, Digits) ELSE a
      dec == IF dot THEN SubSeq(s, a + 1, b - 1) ELSE <<>>
      n == DigitsValue(SubSeq(s, i0, a - 1)) * 100 + Hundredths(dec)
  IN IF a = i0 /\ dec = <<>> THEN NaN
     ELSE Num(IF neg THEN 0 - n ELSE n)

\* validateRating(value, count, label): every comparison with NaN is false.
ValidateRating(value, count) ==
  IF ~value.nan /\ (value.n < 0 \/ value.n > 1000) THEN FALSE
  ELSE IF ~count.nan /\ (count.n <= 0 \/ count.n > 1000000) THEN FALSE
  ELSE TRUE

\* text.match(/(\d+)\s*Ratings?/i): the starts of a digit run that white
\* space and "Ratings" follow; the match is the leftmost, its group the run.
CountStarts(t) ==
  {i \in 1..Len(t) :
     /\ t[i] \in Digits
     /\ LET h == RunEnd(t, RunEnd(t, i, Digits), WhiteSpace)
        IN h <= Len(t) /\ t[h] = "Ratings"}

CountGroup(t) ==
  LET i == CHOOSE j \in CountStarts(t) : \A k \in CountStarts(t) : j <= k
  IN SubSeq(t, i, RunEnd(t, i, Digits) - 1)

\* label.toLowerCase(), the pattern characters removed, '|' and '-' turned to
\* spaces, trimmed, the first word: for the price-value pattern this is
\* 'value' (of 'value for money price s*value pricing)').
NormalizedLabel(label) ==
  CASE label = "Scent" -> "scent"
    [] label = "Longevity" -> "longevity"
    [] label = "Sillage" -> "sillage"
    [] label = "Bottle" -> "bottle"
    [] label = "PriceValue" -> "value"

LabelToDataType ==
  [k \in {"longevity", "sillage", "bottle", "pricing", "value for money",
          "price-value", "price value"} |->
     CASE k = "longevity" -> "durability"
       [] k = "sillage" -> "sillage"
       [] k = "bottle" -> "bottle"
       [] OTHER -> "pricing"]

DataTypes == {"durability", "sillage", "bottle", "pricing"}

\* No element with the data-type attribute.
NoContainer == [present |-> FALSE, value |-> <<>>, count |-> <<>>]

\* The second half of extractRatingFromDOM: the container [data-type=...],
\* the text of its value span and of its count span, parsed and validated.
ContainerRating(d, dataType) ==
  LET container == d.containers[dataType]
      valueText == Trim(container.value)
      value == ParseFloat(valueText)
      countText == Trim(container.count)
  IN IF ~container.present THEN NoMatch
     ELSE IF valueText = <<>> THEN NoMatch
     ELSE IF value.nan THEN NoMatch
     ELSE IF CountStarts(countText) = {} THEN NoMatch
     ELSE LET count == ParseInt(CountGroup(countText))
          IN IF ValidateRating(value, count) THEN Match(value, count)
             ELSE NoMatch

\* extractRatingFromDOM($, label): null when the label's first word is no key
\* of the table.
ExtractRatingFromDOM(d, label) ==
  IF NormalizedLabel(label) \notin DOMAIN LabelToDataType THEN NoMatch
  ELSE ContainerRating(d, LabelToDataType[NormalizedLabel(label)])

\* label[^\d]+(\d{1,2}\.\d{1,2})[^\d]{2,}([\d,]+)\s*Ratings? matched with the
\* label at t[p].  [^\d]+ ends at the first digit b; the value is one or two
\* digits, '.', one or two digits, a non-digit after them at e; [^\d]{2,}
\* ends at some s up to the next digit, where [\d,]+ takes the whole run of
\* digits and commas; the greedy separator takes the last such s.
SeparatedAt(t, p) ==
  LET b == NonDigitEnd(t, p + 1)
      c == RunEnd(t, b, Digits)
      e == RunEnd(t, c + 1, Digits)
      f == NonDigitEnd(t, e)
      starts == {s \in (e + 2)..f :
                   /\ s <= Len(t)
                   /\ t[s] \in DigitOrComma
                   /\ LET h == RunEnd(t, RunEnd(t, s, DigitOrComma), WhiteSpace)
                      IN h <= Len(t) /\ t[h] = "Ratings"}
  IN IF /\ b > p + 1
        /\ c - b \in {1, 2}
        /\ c <= Len(t) /\ t[c] = "."
        /\ e - (c + 1) \in {1, 2}
        /\ starts # {}
       THEN LET s == CHOOSE x \in starts : \A y \in starts : x >= y
            IN [found |-> TRUE,
                value |-> SubSeq(t, b, e - 1),
                count |-> SubSeq(t, s, RunEnd(t, s, DigitOrComma) - 1)]
       ELSE [found |-> FALSE, value |-> <<>>, count |-> <<>>]

\* The positions of the label in the text at which the pattern matches.
SeparatedMatches(t, label) ==
  {p \in 1..Len(t) : t[p] \in LabelWords(label) /\ SeparatedAt(t, p).found}

\* extractRatingSeparated(pageText, label): the leftmost match, validated.
ExtractRatingSeparated(t, label) ==
  IF SeparatedMatches(t, label) = {} THEN NoMatch
  ELSE LET p == CHOOSE x \in SeparatedMatches(t, label) :
                  \A y \in SeparatedMatches(t, label) : x <= y
           m == SeparatedAt(t, p)
           value == ParseFloat(m.value)
           count == ParseInt(m.count)
       IN IF ValidateRating(value, count) THEN Match(value, count) ELSE NoMatch

\* label[^\d]*(\d{1,2})\.(\d+?)\s*Ratings? matched with the label at t[p]:
\* the lazy group ends where white space and "Ratings" follow, that is at the
\* end of the digit run.
ConcatenatedAt(t, p) ==
  LET b == NonDigitEnd(t, p + 1)
      c == RunEnd(t, b, Digits)
      e == RunEnd(t, c + 1, Digits)
      h == RunEnd(t, e, WhiteSpace)
  IN IF /\ c - b \in {1, 2}
        /\ c <= Len(t) /\ t[c] = "."
        /\ e > c + 1
        /\ h <= Len(t) /\ t[h] = "Ratings"
       THEN [found |-> TRUE, integerPart |-> SubSeq(t, b, c - 1),
             decimalDigits |-> SubSeq(t, c + 1, e - 1)]
       ELSE [found |-> FALSE, integerPart |-> <<>>, decimalDigits |-> <<>>]

ConcatenatedMatches(t, label) ==
  {p \in 1..Len(t) : t[p] \in LabelWords(label) /\ ConcatenatedAt(t, p).found}

\* The candidate with the first k decimals as the value's and the rest as
\* the count, validated.
SplitAt(m, k) ==
  LET value == ParseFloat(m.integerPart \o <<".">> \o SubSeq(m.decimalDigits, 1, k))
      count == ParseInt(SubSeq(m.decimalDigits, k + 1, Len(m.decimalDigits)))
  IN IF ValidateRating(value, count) THEN Match(value, count) ELSE NoMatch

ExtractRatingConcatenated_OneDecimal(t, label) ==
  IF ConcatenatedMatches(t, label) = {} THEN NoMatch
  ELSE LET p == CHOOSE x \in ConcatenatedMatches(t, label) :
                  \A y \in ConcatenatedMatches(t, label) : x <= y
           m == ConcatenatedAt(t, p)
       IN IF Len(m.decimalDigits) >= 4 THEN SplitAt(m, 1) ELSE NoMatch

\* extractRatingConcatenated(pageText, label).
ExtractRatingConcatenated(t, label) ==
  IF ConcatenatedMatches(t, label) = {} THEN NoMatch
  ELSE LET p == CHOOSE x \in ConcatenatedMatches(t, label) :
                  \A y \in ConcatenatedMatches(t, label) : x <= y
           m == ConcatenatedAt(t, p)
           n == Len(m.decimalDigits)
       IN IF n = 5
            THEN IF ParseInt(SubSeq(m.decimalDigits, 2, 5)).n >= 1000
                   THEN SplitAt(m, 1)
                   ELSE SplitAt(m, 2)
          ELSE IF n >= 6 THEN SplitAt(m, 2)
          ELSE IF n = 4 THEN SplitAt(m, 1)
          ELSE NoMatch

\* extractRatingMetric($, label): the three strategies in order.
ExtractRatingMetric(d, label) ==
  IF ExtractRatingFromDOM(d, label).found
    THEN ExtractRatingFromDOM(d, label)
  ELSE IF ExtractRatingSeparated(d.body, label).found
    THEN ExtractRatingSeparated(d.body, label)
  ELSE ExtractRatingConcatenated(d.body, label)

\* A field of the ratings object: not set, or a number.
Unset == [has |-> FALSE, nan |-> FALSE, n |-> 0]
Field(x) == [has |-> TRUE, nan |-> x.nan, n |-> x.n]
ValueOf(m) == IF m.found THEN Field(m.value) ELSE Unset
CountOf(m) == IF m.found THEN Field(m.count) ELSE Unset

\* !ratings.scent: the field is not set, 0 or NaN.
Falsy(x) == ~x.has \/ x.nan \/ x.n = 0

\* extractAllRatings($).
ExtractAllRatings(d) ==
  LET ratingValueText == Trim(d.ratingValue)
      ratingValue == ParseFloat(ratingValueText)
      structured == IF ratingValueText # <<>> /\ ~ratingValue.nan
                      THEN Field(ratingValue) ELSE Unset
      ratingCountText == Trim(d.ratingCount)
      scent == ExtractRatingMetric(d, "Scent")
      longevity == ExtractRatingMetric(d, "Longevity")
      sillage == ExtractRatingMetric(d, "Sillage")
      bottle == ExtractRatingMetric(d, "Bottle")
      priceValue == ExtractRatingMetric(d, "PriceValue")
  IN [done |-> TRUE,
      scent |-> IF Falsy(structured) /\ scent.found THEN Field(scent.value)
                ELSE structured,
      totalRatings |-> IF CountStarts(ratingCountText) # {}
                         THEN Field(ParseInt(CountGroup(ratingCountText)))
                         ELSE Unset,
      longevity |-> ValueOf(longevity),
      longevityRatingCount |-> CountOf(longevity),
      sillage |-> ValueOf(sillage),
      sillageRatingCount |-> CountOf(sillage),
      bottle |-> ValueOf(bottle),
      bottleRatingCount |-> CountOf(bottle),
      priceValue |-> ValueOf(priceValue),
      priceValueRatingCount |-> CountOf(priceValue)]

\* extractAllRatings has not run.
NoRatings ==
  [done |-> FALSE, scent |-> Unset, totalRatings |-> Unset,
   longevity |-> Unset, longevityRatingCount |-> Unset,
   sillage |-> Unset, sillageRatingCount |-> Unset,
   bottle |-> Unset, bottleRatingCount |-> Unset,
   priceValue |-> Unset, priceValueRatingCount |-> Unset]

\* The documents: the text of [itemprop="ratingValue"] and of
\* [itemprop="ratingCount"], the container of each data-type, the body text.
Container(value, count) == [present |-> TRUE, value |-> value, count |-> count]

RatingValueTexts == {<<>>, <<"8", ".", "6">>, <<"1", "5", ".", "0">>, <<"0">>}
RatingCountTexts == {<<>>, <<"3", "0", "5", "2", " ", "Ratings">>}

DurabilityContainers ==
  {NoContainer,
   Container(<<"8", ".", "1">>, <<"2", "8", "9", "5", " ", "Ratings">>),
   Container(<<"1", "1", ".", "0">>, <<"2", "8", "9", "5", " ", "Ratings">>),
   Container(<<"7", ".", "5">>, <<"0", " ", "Ratings">>)}

PricingContainers ==
  {NoContainer, Container(<<"7", ".", "5">>, <<"1", "0", "0", " ", "Ratings">>)}

\* Texts in which the longevity rating and its count run together:
\* "Longevity {integer}.{digits} Ratings".
ConcatenatedBody(int, dec) == <<"Longevity", " ">> \o int \o <<".">> \o dec \o <<" ", "Ratings">>
IntegerParts == {<<"6">>, <<"1", "2">>}
DecimalRuns ==
  {<<"9">>, <<"6", "4", "0">>,
   <<"9", "4", "0", "6">>, <<"9", "0", "0", "0">>,
   <<"6", "5", "4", "0", "6">>, <<"6", "0", "4", "0", "6">>,
   <<"9", "9", "1", "2", "3", "4">>,
   <<"9", "9", "1", "2", "3", "4", "5", "6", "7", "8">>}
ConcatenatedBodies == {ConcatenatedBody(int, dec) : int \in IntegerParts, dec \in DecimalRuns}

Bodies ==
  {<<>>,
   <<"Longevity", " ", "8", ".", "6", " ", " ", "2", "8", "9", "5", " ", "Ratings">>,
   <<"Longevity", " ", "8", ".", "6", " ", "2", "8", "9", "5", " ", "Ratings">>,
   <<"Longevity", "8", ".", "6", "2", "8", "9", "5", " ", "Ratings">>,
   <<"Longevity", " ", "6", ".", "9", "4", "0", "6", " ", "Ratings">>,
   <<"Longevity", " ", "8", ".", "6", "5", "4", "0", "6", " ", "Ratings">>,
   <<"Longevity", " ", "1", "2", ".", "5", " ", " ", "2", "8", "9", "5", " ", "Ratings">>,
   <<"Longevity", " ", "8", ".", "6", " ", " ", ",", " ", "Ratings">>,
   <<"Longevity", "\n", "8", ".", "6", "\n", "\n", "2", ",", "0", "0", "0", ",", "0", "0", "0",
     " ", "Ratings">>,
   <<"Scent", " ", "9", ".", "1", " ", " ", "1", "2", "0", " ", "Ratings">>,
   <<"Sillage", " ", "7", ".", "2", " ", " ", "8", "8", " ", "Ratings",
     " ", "Bottle", " ", "9", ".", "9", "9", "1", "2", "3", "4", " ", "Ratings">>,
   <<"Pricing", " ", "7", ".", "0", " ", " ", "5", "5", " ", "Ratings">>}
    \cup ConcatenatedBodies

Docs ==
  {[ratingValue |-> v, ratingCount |-> c,
    containers |-> [k \in DataTypes |->
                      IF k = "durability" THEN dur
                      ELSE IF k = "pricing" THEN pr ELSE NoContainer],
    body |-> b] :
     v \in RatingValueTexts, c \in RatingCountTexts, dur \in DurabilityContainers,
     pr \in PricingContainers, b \in Bodies}

\* No document has been handed over.
NoDoc ==
  [ratingValue |-> <<>>, ratingCount |-> <<>>,
   containers |-> [k \in DataTypes |-> NoContainer], body |-> <<>>]

\* extractAllRatings($) runs on the document.
ExtractAllRatingsCalled ==
  /\ ~ratings.done
  /\ ratings' = ExtractAllRatings(doc)
  /\ UNCHANGED <<doc, rawName, nameRuns, searchArgs, searchRun, rcall, decodoVars>>
  /\ UNCHANGED <<mgrVars, nextSession, httpVars, browserVars, poolVars, cacheVars,
                 checkInterval>>

\* ----------------------------------------------------------------- UrlProcessor
ToUpperChar(ch) ==
  IF \E i \in 1..Len(LowerCase) : LowerCase[i] = ch
    THEN UpperCase[CHOOSE i \in 1..Len(LowerCase) : LowerCase[i] = ch]
    ELSE ch

\* \w: a letter, a digit or the underscore.
WordChars ==
  {UpperCase[i] : i \in 1..Len(UpperCase)} \cup {LowerCase[i] : i \in 1..Len(LowerCase)}
    \cup Digits \cup {"_"}

\* The starts of a match of /\b(19|20)\d{2}\b/ in the name.
YearStarts(s) ==
  {i \in 1..(Len(s) - 3) :
     /\ <<s[i], s[i + 1]>> \in {<<"1", "9">>, <<"2", "0">>}
     /\ s[i + 2] \in Digits /\ s[i + 3] \in Digits
     /\ (i = 1 \/ s[i - 1] \notin WordChars)
     /\ (i + 3 = Len(s) \/ s[i + 4] \notin WordChars)}

\* name.replace(/\s*\d{4}\s*$/, ''): four digits at the end of the name, with
\* the white space around them.
StripTrailingDigits(s) ==
  LET t == TrimEnd(s)
      n == Len(t)
  IN IF n >= 4 /\ \A i \in (n - 3)..n : t[i] \in Digits
       THEN TrimEnd(SubSeq(t, 1, n - 4))
       ELSE s

\* undefined, for the year.
NoYear == 0

\* extractYear(name): [cleanedName, year].
ExtractYear(s) ==
  IF YearStarts(s) # {}
    THEN LET i == CHOOSE x \in YearStarts(s) : \A y \in YearStarts(s) : x <= y
         IN [name |-> Trim(StripTrailingDigits(s)),
             year |-> DigitsValue(SubSeq(s, i, i + 3))]
    ELSE [name |-> s, year |-> NoYear]

ConcentrationTypes ==
  {<<"E", "a", "u", " ", "d", "e", " ", "P", "a", "r", "f", "u", "m">>,
   <<"E", "a", "u", " ", "d", "e", " ", "T", "o", "i", "l", "e", "t", "t", "e">>,
   <<"P", "a", "r", "f", "u", "m">>,
   <<"C", "o", "l", "o", "g", "n", "e">>,
   <<"E", "x", "t", "r", "a", "i", "t">>}

\* The starts of a match of /\s+(Eau de Parfum|...|Extrait)$/i: white space
\* up to a concentration type that ends the name.
ConcentrationStarts(s) ==
  {p \in 1..Len(s) :
     /\ s[p] = " "
     /\ LET q == RunEnd(s, p, {" "})
        IN \E c \in ConcentrationTypes :
             ToLowerCase(SubSeq(s, q, Len(s))) = ToLowerCase(c)}

\* word.charAt(0).toUpperCase() + word.slice(1).toLowerCase() for each word
\* of split(' '), joined by ' '.
Capitalize(s) ==
  [i \in 1..Len(s) |->
     IF i = 1 \/ s[i - 1] = " " THEN ToUpperChar(s[i]) ELSE ToLowerChar(s[i])]

\* cleanPerfumeName(name): one concentration type is removed from the end.
CleanPerfumeName(s) ==
  LET cleaned ==
        IF ConcentrationStarts(s) = {} THEN Trim(s)
        ELSE Trim(SubSeq(s, 1,
               (CHOOSE x \in ConcentrationStarts(s) :
                  \A y \in ConcentrationStarts(s) : x <= y) - 1))
  IN Capitalize(cleaned)

\* processPerfumeName(rawName): [cleanedName, year].
ProcessPerfumeName(raw) ==
  LET e == ExtractYear(UnderscoresToSpaces(raw))
  IN [name |-> CleanPerfumeName(e.name), year |-> e.year]

\* The raw names: a name of one or two words and up to MaxNameParts further
\* parts, each a concentration type or a four-digit token, joined as in a URL.
MaxNameParts == 2
NameStems ==
  {Aventus, <<"s", "a", "u", "v", "a", "g", "e", "_", "e", "l", "i", "x", "i", "r">>,
   <<"2", "0", "1", "5", "_">> \o Aventus}
NameParts ==
  {<<"C", "o", "l", "o", "g", "n", "e">>, <<"p", "a", "r", "f", "u", "m">>, <<"E", "a", "u", "_", "d", "e", "_", "P", "a", "r", "f", "u", "m">>,
   <<"2", "0", "1", "0">>, <<"2", "0", "1", "5">>, <<"1", "8", "5", "0">>,
   <<"2", "0", "9", "0">>}

RECURSIVE JoinParts(_)
JoinParts(parts) ==
  IF parts = <<>> THEN <<>>
  ELSE <<"_">> \o Head(parts) \o JoinParts(Tail(parts))

PartLists == UNION {[1..n -> NameParts] : n \in 0..MaxNameParts}

RawNames == {stem \o JoinParts(parts) : stem \in NameStems, parts \in PartLists}

\* processPerfumeName runs on the raw name, and then on the name it returned.
ProcessPerfumeNameCalled ==
  /\ Len(nameRuns) < 2
  /\ nameRuns' = Append(nameRuns,
                        ProcessPerfumeName(IF nameRuns = <<>> THEN rawName
                                           ELSE nameRuns[1].name))
  /\ UNCHANGED <<doc, ratings, rawName, searchArgs, searchRun, rcall, decodoVars>>
  /\ UNCHANGED <<mgrVars, nextSession, httpVars, browserVars, poolVars, cacheVars,
                 checkInterval>>

\* RELEVANCE_SCORES and LIMITS.DEFAULT_SEARCH_LIMIT.
EXACT_COMBINED == 100
EXACT_BRAND == 50
EXACT_NAME == 50
BRAND_CONTAINS_WORD == 10
NAME_CONTAINS_WORD == 15
WORD_STARTS_WITH == 20
CONTAINS_FULL_QUERY == 30
MIN_RELEVANCE == 5
DEFAULT_SEARCH_LIMIT == 20

\* s.split(/\s+/): `cur` is the part being read.
RECURSIVE SplitSpacesFrom(_, _)
SplitSpacesFrom(s, cur) ==
  IF s = <<>> THEN <<cur>>
  ELSE IF Head(s) = " " THEN <<cur>> \o SplitSpacesFrom(TrimStart(Tail(s)), <<>>)
  ELSE SplitSpacesFrom(Tail(s), Append(cur, Head(s)))
SplitSpaces(s) == SplitSpacesFrom(s, <<>>)

\* w.startsWith(q)
StartsWith(w, q) == Len(q) <= Len(w) /\ SubSeq(w, 1, Len(q)) = q

LongerThanTwo(w) == Len(w) > 2

\* What the forEach over the query words adds to the score.
RECURSIVE WordsScore(_, _, _, _)
WordsScore(queryWords, brandLower, nameLower, combinedWords) ==
  IF queryWords = <<>> THEN 0
  ELSE LET queryWord == Head(queryWords) IN
         (IF Includes(brandLower, queryWord) THEN BRAND_CONTAINS_WORD ELSE 0)
           + (IF Includes(nameLower, queryWord) THEN NAME_CONTAINS_WORD ELSE 0)
           + (IF \E i \in 1..Len(combinedWords) : StartsWith(combinedWords[i], queryWord)
                THEN WORD_STARTS_WITH ELSE 0)
           + WordsScore(Tail(queryWords), brandLower, nameLower, combinedWords)

\* calculateRelevance(query, brand, name).
CalculateRelevance_Uncapped(query, brand, name) ==
  LET queryLower == Trim(ToLowerCase(query))
      brandLower == Trim(ToLowerCase(brand))
      nameLower == Trim(ToLowerCase(name))
      combined == brandLower \o <<" ">> \o nameLower
  IN (IF brandLower = queryLower THEN EXACT_BRAND ELSE 0)
       + (IF nameLower = queryLower THEN EXACT_NAME ELSE 0)
       + WordsScore(SelectSeq(SplitSpaces(queryLower), LongerThanTwo),
                    brandLower, nameLower, SplitSpaces(combined))
       + (IF Includes(combined, queryLower) THEN CONTAINS_FULL_QUERY ELSE 0)

CalculateRelevance(query, brand, name) ==
  LET queryLower == Trim(ToLowerCase(query))
      brandLower == Trim(ToLowerCase(brand))
      nameLower == Trim(ToLowerCase(name))
      combined == brandLower \o <<" ">> \o nameLower
      score ==
        (IF brandLower = queryLower THEN EXACT_BRAND ELSE 0)
          + (IF nameLower = queryLower THEN EXACT_NAME ELSE 0)
          + WordsScore(SelectSeq(SplitSpaces(queryLower), LongerThanTwo),
                       brandLower, nameLower, SplitSpaces(combined))
          + (IF Includes(combined, queryLower) THEN CONTAINS_FULL_QUERY ELSE 0)
  IN IF combined = queryLower THEN EXACT_COMBINED
     ELSE Min(score, EXACT_COMBINED)

\* ---------------------------------------------------------------- ParfumoScraper
\* A link of the search page: whether it has an href that isValidPerfumeUrl
\* accepts, and the brand and name parts of its URL.
Link(brand, name) == [valid |-> TRUE, brand |-> brand, name |-> name]
OtherLink == [valid |-> FALSE, brand |-> <<>>, name |-> <<>>]

\* The body of $links.each over the links of one selector: `acc` holds the
\* results, the URLs seen and every link that was scored.
RECURSIVE VisitLinks(_, _, _, _)
VisitLinks(query, links, limit, acc) ==
  IF links = <<>> \/ Len(acc.results) >= limit THEN acc
  ELSE LET l == Head(links)
           brand == UnderscoresToSpaces(l.brand)
           pn == ProcessPerfumeName(l.name)
           relevanceScore == CalculateRelevance(query, brand, pn.name)
           seen == [acc EXCEPT !.seenUrls = @ \cup {<<l.brand, l.name>>},
                               !.scored = Append(@, [brand |-> brand, name |-> pn.name,
                                                     relevance |-> relevanceScore])]
       IN IF ~l.valid \/ <<l.brand, l.name>> \in acc.seenUrls
            THEN VisitLinks(query, Tail(links), limit, acc)
          ELSE IF relevanceScore < MIN_RELEVANCE \/ pn.name = <<>> \/ brand = <<>>
            THEN VisitLinks(query, Tail(links), limit, seen)
          ELSE VisitLinks(query, Tail(links), limit,
                 [seen EXCEPT !.results =
                    Append(@, [name |-> pn.name, brand |-> brand,
                               url |-> <<l.brand, l.name>>, year |-> pn.year,
                               relevance |-> relevanceScore])])

\* The loop over the selectors: it ends with the first one that gave results.
RECURSIVE TrySelectors(_, _, _, _)
TrySelectors(query, selectors, limit, acc) ==
  IF selectors = <<>> THEN acc
  ELSE LET a == VisitLinks(query, Head(selectors), limit, acc)
       IN IF Len(a.results) > 0 THEN a
          ELSE TrySelectors(query, Tail(selectors), limit, a)

\* results.sort((a, b) => b.relevance - a.relevance): stable, highest first.
RECURSIVE InsertByRelevance_BeforeEqual(_, _)
InsertByRelevance_BeforeEqual(sorted, r) ==
  IF sorted = <<>> THEN <<r>>
  ELSE IF Head(sorted).relevance > r.relevance
    THEN <<Head(sorted)>> \o InsertByRelevance_BeforeEqual(Tail(sorted), r)
  ELSE <<r>> \o sorted

RECURSIVE InsertByRelevance(_, _)
InsertByRelevance(sorted, r) ==
  IF sorted = <<>> THEN <<r>>
  ELSE IF Head(sorted).relevance >= r.relevance
    THEN <<Head(sorted)>> \o InsertByRelevance(Tail(sorted), r)
  ELSE <<r>> \o sorted

RECURSIVE SortByRelevance(_)
SortByRelevance(results) ==
  IF results = <<>> THEN <<>>
  ELSE InsertByRelevance(SortByRelevance(SubSeq(results, 1, Len(results) - 1)),
                         results[Len(results)])

\* search(query, limit) from the parsed page on: the links that were scored,
\* the results that were kept, and what is returned (the results without the
\* relevance field; rating and image are left out).
Search(query, selectors, limit) ==
  LET a == TrySelectors(query, selectors, limit,
                        [results |-> <<>>, seenUrls |-> {}, scored |-> <<>>])
      results == SortByRelevance(a.results)
  IN [done |-> TRUE, scored |-> a.scored, results |-> results,
      returned |-> [i \in 1..Len(results) |->
                      [name |-> results[i].name, brand |-> results[i].brand,
                       url |-> results[i].url, year |-> results[i].year]]]

\* search has not run.
NoSearchRun == [done |-> FALSE, scored |-> <<>>, results |-> <<>>, returned |-> <<>>]
NoSearchArgs == [query |-> <<>>, selectors |-> <<>>, limit |-> 0]

\* The queries, the links of a page and the search calls.
MaxLinks == 2
SearchQueries ==
  {<<"C", "r", "e", "e", "d", " ", "A", "v", "e", "n", "t", "u", "s">>, <<" ", "c", "r", "e", "e", "d", " ", "A", "V", "E", "N", "T", "U", "S", " ">>, Aventus, Dior,
   <<"C", "r", "e", "e", "d">>, <<"x", "y">>, <<>>}
SearchLinks ==
  {Link(Creed, Aventus), Link(Creed, Creed), Link(Dior, Sauvage),
   Link(<<"D", "i", "o", "r">>, <<"S", "a", "u", "v", "a", "g", "e", "_", "E", "a", "u", "_", "d", "e", "_", "P", "a", "r", "f", "u", "m", "_", "2", "0", "1", "5">>), OtherLink}
LinkLists == UNION {[1..n -> SearchLinks] : n \in 0..MaxLinks}
SearchCalls ==
  {[query |-> q, selectors |-> <<first, second>>, limit |-> limit] :
     q \in SearchQueries, first \in LinkLists,
     second \in {<<>>, <<Link(Creed, Aventus), Link(Dior, Sauvage)>>},
     limit \in {1, DEFAULT_SEARCH_LIMIT}}

\* search(query, limit) parses the page it got and returns.
SearchCalled ==
  /\ ~searchRun.done
  /\ searchRun' = Search(searchArgs.query, searchArgs.selectors, searchArgs.limit)
  /\ UNCHANGED <<doc, ratings, rawName, nameRuns, searchArgs, rcall, decodoVars>>
  /\ UNCHANGED <<mgrVars, nextSession, httpVars, browserVars, poolVars, cacheVars,
                 checkInterval>>

\* GET /search?q=&limit=&cache=.  `parseInt(limit) || 20`: the leading digits
\* of the parameter, and the default when there is none or they make 0.
ParseLimit(param) ==
  LET k == RunEnd(param, 1, Digits)
      n == IF k = 1 THEN 0 ELSE DigitsValue(SubSeq(param, 1, k - 1))
  IN IF n = 0 THEN DEFAULT_SEARCH_LIMIT ELSE n

\* JSON.parse(JSON.stringify(results)): the array with its members' name,
\* brand, url and year (an undefined year is left out and reads undefined).
JsonResults(results) ==
  [i \in 1..Len(results) |->
     [name |-> results[i].name, brand |-> results[i].brand,
      url |-> results[i].url, year |-> results[i].year]]

NoSearchCall ==
  [query |-> <<>>, limit |-> 0, useCache |-> FALSE, status |-> 0, cached |-> FALSE,
   data |-> <<>>]

\* The response of the handler.
SearchResponded(q, limit, useCache, status, cached, data) ==
  searchCall' = [query |-> q, limit |-> limit, useCache |-> useCache,
                 status |-> status, cached |-> cached, data |-> data]

\* The handler of GET /search from the request to the response: 400 without
\* a query, the cached results when the cache is on and has the query,
\* else the scraper's results, which are saved (500 when the scraper throws).
SearchRoute(q, limitParam, cacheParam, selectors, scraped, d) ==
  LET limit == ParseLimit(limitParam)
      useCache == cacheParam # <<"f", "a", "l", "s", "e">>
      rows == LatestSearchRows(q)
  IN /\ IF q = <<>>
          THEN /\ SearchResponded(q, limit, useCache, 400, FALSE, <<>>)
               /\ UNCHANGED searchCache
        ELSE IF useCache /\ rows # {}
          THEN /\ \E r \in rows :
                    SearchResponded(q, limit, useCache, 200, TRUE, r.results)
               /\ UNCHANGED searchCache
        ELSE IF ~scraped
          THEN /\ SearchResponded(q, limit, useCache, 500, FALSE, <<>>)
               /\ UNCHANGED searchCache
        ELSE /\ Len(searchCache) < MaxSearchRows
             /\ \E results \in {Search(q, selectors, limit).returned} :
                  /\ searchCache' =
                       Append(searchCache, SearchCacheRow(q, JsonResults(results), d))
                  /\ SearchResponded(q, limit, useCache, 200, FALSE, results)
     /\ lastGet' = NoGet
     /\ UNCHANGED <<clock, perfumes>>
     /\ UNCHANGED <<mgrVars, nextSession, httpVars, browserVars, poolVars, pureVars,
                    checkInterval>>

\* The requests of the search endpoint.
RouteQueries == {<<>>, Creed}
LimitParams == {<<>>, <<"1">>}
CacheParams == {<<>>, <<"f", "a", "l", "s", "e">>}
RoutePages ==
  {<<first, <<>>>> : first \in {<<Link(Creed, Aventus)>>,
                                <<Link(Creed, Aventus), Link(Creed, Creed)>>}}

\* The state of the proxy layer and of the database after construction; the
\* auth mode of the provider client is set before it.
InitProxy ==
  /\ subUsers = <<>>
  /\ currentSubUser = 0
  /\ mcall = [p \in Procs |-> IdleCall]
  /\ timerPc = "idle"
  /\ timerTarget = 0
  /\ emitted = <<>>
  /\ lastRead = NoRead
  /\ upstreamCreates = 0
  /\ nextSession = 0
  /\ axiosInstance = NoInstance
  /\ httpSessionId = 0
  /\ rotatedFrom = 0
  /\ hcall = [h \in HttpProcs |-> IdleHttp]
  /\ lastAnswer = NoAnswer
  /\ browsers = <<>>
  /\ pages = <<>>
  /\ browser = 0
  /\ activePage = 0
  /\ browserSessionId = 0
  /\ bcall = [b \in BrowserProcs |-> IdleBrowserCall]
  /\ dbSubUsers = {}
  /\ acall = IdleAdd
  /\ stats = NoStats
  /\ ccall = NoCreate
  /\ clock = 0
  /\ perfumes = {}
  /\ searchCache = <<>>
  /\ lastGet = NoGet
  /\ searchCall = NoSearchCall
  /\ checkInterval = TRUE
  /\ rcall = IdleRetry
  /\ authToken = NoToken
  /\ userId = NoToken
  /\ authorization = (IF usingApiKey THEN ApiKeyHeader ELSE NoAuth)
  /\ issuedTokens = 0
  /\ dcall = [p \in DecodoProcs |-> IdleDecodo]

Init ==
  /\ usingApiKey = TRUE
  /\ InitProxy
  /\ doc = NoDoc
  /\ ratings = NoRatings
  /\ rawName = <<>>
  /\ nameRuns = <<>>
  /\ searchArgs = NoSearchArgs
  /\ searchRun = NoSearchRun

\* The manager, its monitoring timer and callers of getProxyConfig.
Next ==
  \/ \E p \in Callers : MgrStart(p)
  \/ \E p \in Callers, t \in TrafficReads : MgrCachedChecked(p, t)
  \/ \E p \in Callers, t \in TrafficReads : MgrScanChecked(p, t)
  \/ \E ok \in BOOLEAN : CreateSubUser(ok)
  \/ MonitorTick
  \/ \E t \in TrafficReads : MonitorChecked(t)

Spec == Init /\ [][Next]_vars

\* The manager, its monitoring timer and one caller of the HTTP client.
NextHttp ==
  \/ \E m \in {"get", "post"} : HttpAttempt("h1", m)
  \/ \E t \in TrafficReads : HttpCachedChecked("h1", t)
  \/ \E t \in TrafficReads : HttpScanChecked("h1", t)
  \/ \E f \in HttpAnswers : HttpAnswered("h1", f)
  \/ HttpReset
  \/ \E ok \in BOOLEAN : CreateSubUser(ok)
  \/ MonitorTick
  \/ \E t \in TrafficReads : MonitorChecked(t)

SpecHttp == Init /\ [][NextHttp]_vars

\* The quota reads below the threshold.
RaceReads == {t \in TrafficReads : ~t.failed /\ Classify(t) = "ok"}

\* Two concurrent callers of the HTTP client and reset(), in the runs where
\* the pool has one sub-user, its quota reads are below the threshold and the
\* requests succeed.
NextHttpRace ==
  \/ \E h \in HttpProcs : HttpAttempt(h, "get")
  \/ \E h \in HttpProcs, t \in RaceReads : HttpCachedChecked(h, t)
  \/ \E h \in HttpProcs : HttpAnswered(h, NoError)
  \/ HttpReset
  \/ subUsers = <<>> /\ CreateSubUser(TRUE)

SpecHttpRace == Init /\ [][NextHttpRace]_vars

\* The manager with a pool of one sub-user and one caller of the browser
\* client; every browser call can fail.
NextBrowser ==
  \/ \E url \in {UrlAventus, UrlIpCheck} : BrowserAttempt("b1", url)
  \/ \E t \in TrafficReads : BrowserCachedChecked("b1", t)
  \/ \E t \in TrafficReads : BrowserScanChecked("b1", t)
  \/ \E r \in BrowserOutcomes : BrowserLaunched("b1", r)
  \/ \E r \in BrowserOutcomes : BrowserPageCreated("b1", r)
  \/ \E r \in BrowserOutcomes : BrowserPageSetup("b1", r)
  \/ \E r \in BrowserOutcomes, d \in DocsFor(bcall["b1"].url) \cup {BlankDoc} :
       BrowserNavigated("b1", r, d)
  \/ \E r \in BrowserOutcomes : BrowserContentRead("b1", r)
  \/ \E r \in BrowserOutcomes : BrowserTitleRead("b1", r)
  \/ \E nav \in BOOLEAN, d \in DocsFor(bcall["b1"].url) \cup {BlankDoc} :
       BrowserChallengeWaited("b1", nav, d)
  \/ \E r \in BrowserOutcomes : BrowserResetPageClosed("b1", r)
  \/ \E r \in BrowserOutcomes : BrowserResetBrowserClosed("b1", r)
  \/ \E i \in 1..MaxBrowsers : BrowserCrashed(i)
  \/ subUsers = <<>> /\ CreateSubUser(TRUE)

SpecBrowser == Init /\ [][NextBrowser]_vars

\* Two concurrent callers of the browser client, in the runs where no
\* browser call fails, the quota reads are below the threshold and the site
\* answers with the requested page.
RaceDocs(url) == {d \in DocsFor(url) : ~IsChallengeTitle(d.title) /\ d.og \in {<<>>, url}}
NextBrowserRace ==
  \/ \E b \in BrowserProcs, url \in {UrlAventus, UrlSauvage} : BrowserAttempt(b, url)
  \/ \E b \in BrowserProcs, t \in RaceReads : BrowserCachedChecked(b, t)
  \/ \E b \in BrowserProcs : BrowserLaunched(b, NoError)
  \/ \E b \in BrowserProcs : BrowserPageCreated(b, NoError)
  \/ \E b \in BrowserProcs : BrowserPageSetup(b, NoError)
  \/ \E b \in BrowserProcs : \E d \in RaceDocs(bcall[b].url) : BrowserNavigated(b, NoError, d)
  \/ \E b \in BrowserProcs : BrowserContentRead(b, NoError)
  \/ \E b \in BrowserProcs : BrowserTitleRead(b, NoError)
  \/ \E b \in BrowserProcs : BrowserResetPageClosed(b, NoError)
  \/ \E b \in BrowserProcs : BrowserResetBrowserClosed(b, NoError)
  \/ subUsers = <<>> /\ CreateSubUser(TRUE)

SpecBrowserRace == Init /\ [][NextBrowserRace]_vars

\* Two concurrent callers of the browser client asking for the same perfume
\* page, in the runs where no browser call fails and the site answers with
\* the requested page or with a challenge page in front of it.
ChallengeDocs(url) == {d \in DocsFor(url) : d.og = url}
NextChallengeRace ==
  \/ \E b \in BrowserProcs : BrowserAttempt(b, UrlAventus)
  \/ \E b \in BrowserProcs, t \in RaceReads : BrowserCachedChecked(b, t)
  \/ \E b \in BrowserProcs : BrowserLaunched(b, NoError)
  \/ \E b \in BrowserProcs : BrowserPageCreated(b, NoError)
  \/ \E b \in BrowserProcs : BrowserPageSetup(b, NoError)
  \/ \E b \in BrowserProcs : \E d \in ChallengeDocs(bcall[b].url) :
       BrowserNavigated(b, NoError, d)
  \/ \E b \in BrowserProcs : BrowserContentRead(b, NoError)
  \/ \E b \in BrowserProcs : BrowserTitleRead(b, NoError)
  \/ \E b \in BrowserProcs : \E nav \in BOOLEAN :
       \E d \in ChallengeDocs(bcall[b].url) \cup {BlankDoc} :
         BrowserChallengeWaited(b, nav, d)
  \/ subUsers = <<>> /\ CreateSubUser(TRUE)

SpecChallengeRace == Init /\ [][NextChallengeRace]_vars

\* The pool operations: createSubUser, the monitoring timer's quota checks,
\* addExistingSubUser and restarts, in the runs where the provider's list
\* says the same of every sub-user.
NextPool ==
  \/ \E ok \in BOOLEAN : CreateSubUser(ok)
  \/ MonitorTick
  \/ \E t \in TrafficReads : MonitorChecked(t)
  \/ \E u \in UpstreamAccounts \cup UnknownAccounts : AddExistingCalled(u)
  \/ \E ok \in BOOLEAN : AddExistingListed(ok)
  \/ \E t \in TrafficReads : AddExistingTraffic(t)
  \/ \E e \in ApiEntries \cup {Absent} :
       LoadSubUsers(TRUE, [i \in 1..Cardinality(dbSubUsers) |-> e])
  \/ LoadSubUsers(FALSE, <<>>)

SpecPool == Init /\ [][NextPool]_vars

\* getStatistics over the pools that createSubUser, addExistingSubUser and
\* the timer's quota checks build.
NextStats ==
  \/ \E ok \in BOOLEAN : CreateSubUser(ok)
  \/ MonitorTick
  \/ \E t \in TrafficReads : MonitorChecked(t)
  \/ \E u \in UpstreamAccounts : AddExistingCalled(u)
  \/ AddExistingListed(TRUE)
  \/ \E t \in TrafficReads : AddExistingTraffic(t)
  \/ GetStatisticsCalled

SpecStats == Init /\ [][NextStats]_vars

\* The perfume cache and the search cache with the clock.
NextCache ==
  \/ ClockTick
  \/ \E pf \in Perfumes, d \in CacheDurations : SavePerfume(pf, d)
  \/ \E pf \in Perfumes : GetPerfume(pf)
  \/ \E pf \in Perfumes : GetPerfumeByUrl(pf.url)
  \/ \E q \in Queries, d \in CacheDurations : SaveSearchCache(q, <<>>, d)
  \/ \E q \in Queries : GetCachedSearch(q)
  \/ CleanupExpiredCache

SpecCache == Init /\ [][NextCache]_vars

\* The search endpoint, request after request.
NextSearchRoute ==
  \E q \in RouteQueries, l \in LimitParams, c \in CacheParams, pg \in RoutePages,
     ok \in BOOLEAN, d \in CacheDurations : SearchRoute(q, l, c, pg, ok, d)

SpecSearchRoute == Init /\ [][NextSearchRoute]_vars

\* The quota reads of a sub-user whose usage has reached its quota.
AtQuotaReads == {t \in TrafficReads : ~t.failed /\ t.traffic_used >= t.traffic_limit}

\* The monitoring timer with no caller of getProxyConfig, in the runs where
\* the usage of every sub-user has reached its quota and the provider answers
\* the quota reads.
NextMonitor ==
  \/ \E ok \in BOOLEAN : CreateSubUser(ok)
  \/ MonitorTick
  \/ \E t \in AtQuotaReads : MonitorChecked(t)
  \/ StopMonitoring

\* The interval timer fires as long as it is set, and the awaited quota read
\* is answered.
SpecMonitor ==
  /\ Init
  /\ [][NextMonitor]_vars
  /\ WF_vars(MonitorTick)
  /\ WF_vars(\E t \in AtQuotaReads : MonitorChecked(t))

\* retryWithBackoff with each maxRetries option and every outcome of fn.
NextRetry ==
  \/ \E n \in 0..MaxRetriesOption : RetryCalled(n)
  \/ RetryFnResolved
  \/ \E e \in RetryErrors : RetryFnRejected(e)
  \/ RetryWaited

SpecRetry == Init /\ [][NextRetry]_vars

\* The provider client in either auth mode, with two operations at a time.
InitDecodo ==
  /\ usingApiKey \in BOOLEAN
  /\ InitProxy
  /\ doc = NoDoc
  /\ ratings = NoRatings
  /\ rawName = <<>>
  /\ nameRuns = <<>>
  /\ searchArgs = NoSearchArgs
  /\ searchRun = NoSearchRun

NextDecodo ==
  \/ \E p \in DecodoProcs, op \in DecodoOps : DecodoCalled(p, op)
  \/ \E p \in DecodoProcs, ok \in BOOLEAN : DecodoLoginAnswered(p, ok)
  \/ \E p \in DecodoProcs, ok \in BOOLEAN : DecodoAnswered(p, ok)

SpecDecodo == InitDecodo /\ [][NextDecodo]_vars

\* extractAllRatings on each of the documents.
InitExtract ==
  /\ usingApiKey = TRUE
  /\ InitProxy
  /\ doc \in Docs
  /\ ratings = NoRatings
  /\ rawName = <<>>
  /\ nameRuns = <<>>
  /\ searchArgs = NoSearchArgs
  /\ searchRun = NoSearchRun

NextExtract == ExtractAllRatingsCalled

SpecExtract == InitExtract /\ [][NextExtract]_vars

\* processPerfumeName on each of the raw names.
InitName ==
  /\ usingApiKey = TRUE
  /\ InitProxy
  /\ doc = NoDoc
  /\ ratings = NoRatings
  /\ rawName \in RawNames
  /\ nameRuns = <<>>
  /\ searchArgs = NoSearchArgs
  /\ searchRun = NoSearchRun

NextName == ProcessPerfumeNameCalled

SpecName == InitName /\ [][NextName]_vars

\* search on each of the search calls.
InitSearch ==
  /\ usingApiKey = TRUE
  /\ InitProxy
  /\ doc = NoDoc
  /\ ratings = NoRatings
  /\ rawName = <<>>
  /\ nameRuns = <<>>
  /\ searchArgs \in SearchCalls
  /\ searchRun = NoSearchRun

NextSearch == SearchCalled

SpecSearch == InitSearch /\ [][NextSearch]_vars

\* ------------------------------------------------------------------ C1

\* The claims' own reading of a quota read r: used >= quota, and
\* used >= threshold (the threshold is in MB, the read in bytes).
ReadAtQuota(r) == r.traffic_used >= r.traffic_limit
ReadAtThreshold(r) == r.traffic_used >= WarningThresholdMB * BytesPerMB
ReadClass(r) ==
  IF r.failed THEN "fail"
  ELSE IF ReadAtQuota(r) THEN "exhausted"
  ELSE IF ReadAtThreshold(r) THEN "near"
  ELSE "ok"

IsCheckStep == lastRead'.sub # 0 /\ ~lastRead'.failed
CheckedStatus == subUsers[lastRead'.sub].status
CheckedStatusAfter == subUsers'[lastRead'.sub].status
QuotaEvents(es) == {k \in 1..Len(es) : es[k][1] # "new-subuser-needed"}

\* C1 as stated: used >= quota gives Exhausted and the exhausted
\* notification; threshold <= used < quota gives a near-limit notification and
\* leaves the status Active; used < threshold gives no notification and leaves
\* the status unchanged.
C1_AsStated ==
  [][IsCheckStep =>
       /\ ReadAtQuota(lastRead') =>
            /\ CheckedStatusAfter = "exhausted"
            /\ emitted'[1] = <<"subuser-exhausted", lastRead'.sub>>
       /\ (ReadAtThreshold(lastRead') /\ ~ReadAtQuota(lastRead')) =>
            /\ emitted'[1] = <<"subuser-near-limit", lastRead'.sub>>
            /\ CheckedStatusAfter = "active"
       /\ ~ReadAtThreshold(lastRead') =>
            /\ QuotaEvents(emitted') = {}
            /\ CheckedStatusAfter = CheckedStatus]_vars

\* C1 amended: every quota read (used, quota) that checkSubUserUsage
\* classifies falls in exactly one of three cases.  used >= quota: the
\* status becomes Exhausted and exactly the exhausted notification is emitted
\* (also when used is below the warning threshold).  threshold <= used <
\* quota: exactly one near-limit notification is emitted and the status is
\* left as it was (Active for an Active sub-user).  used < threshold and used
\* < quota: no notification, status left as it was.
C1_QuotaClassification ==
  [][IsCheckStep =>
       LET i == lastRead'.sub
           q == {emitted'[k] : k \in QuotaEvents(emitted')}
       IN
       /\ Cardinality(QuotaEvents(emitted')) <= 1
       /\ ReadAtQuota(lastRead') =>
            /\ CheckedStatusAfter = "exhausted"
            /\ q = { <<"subuser-exhausted", i>> }
       /\ (ReadAtThreshold(lastRead') /\ ~ReadAtQuota(lastRead')) =>
            /\ q = { <<"subuser-near-limit", i>> }
            /\ CheckedStatusAfter = CheckedStatus
       /\ (~ReadAtThreshold(lastRead') /\ ~ReadAtQuota(lastRead')) =>
            /\ q = {}
            /\ CheckedStatusAfter = CheckedStatus]_vars

\* A near-limit read of an Active sub-user has just been classified.
C1_Witness ==
  /\ lastRead.sub # 0
  /\ ~lastRead.failed
  /\ ReadAtThreshold(lastRead) /\ ~ReadAtQuota(lastRead)
  /\ subUsers[lastRead.sub].status = "active"
  /\ emitted # <<>>
  /\ emitted[1] = <<"subuser-near-limit", lastRead.sub>>

\* ------------------------------------------------------------------ C2

\* C2 as stated: a getProxyConfig call made after a quota check has flipped
\* a credential to Exhausted returns a credential that was not Exhausted when
\* the call began and that is Active when it is returned, or fails with the
\* ProxyError.
C2_ExhaustedNeverReturned ==
  \A p \in DOMAIN mcall :
    (mcall[p].pc = "done" /\ mcall[p].exAtStart # {}) =>
       \/ mcall[p].err = "ProxyError" /\ mcall[p].ret = 0
       \/ /\ mcall[p].err = ""
          /\ mcall[p].ret \notin mcall[p].exAtStart
          /\ mcall[p].retStatus = "active"

\* ------------------------------------------------------------------ C3

NearLimitEvents(c, i) ==
  {k \in 1..Len(c.events) : c.events[k] = <<"subuser-near-limit", i>>}

CallStep(p) == mcall'[p] # mcall[p]
HasNewSubUserNeeded(es) == \E k \in 1..Len(es) : es[k][1] = "new-subuser-needed"

\* C4: no step of a getProxyConfig call changes the size of the pool or
\* sends a create call to the provisioning API; a call fails exactly when
\* its scan runs out of usable credentials, and the step in which it fails
\* emits 'new-subuser-needed' last and raises the ProxyError; a call that
\* returns a credential emits no 'new-subuser-needed'.
C4_NoCredentialFailsWithoutCreating ==
  [][\A p \in DOMAIN mcall :
       CallStep(p) =>
          /\ Len(subUsers') = Len(subUsers)
          /\ upstreamCreates' = upstreamCreates
          /\ mcall'[p].pc = "done" =>
               IF mcall'[p].ret = 0
                 THEN /\ mcall'[p].err = "ProxyError"
                      /\ emitted' # <<>>
                      /\ emitted'[Len(emitted')] = <<"new-subuser-needed", 0>>
                      /\ NextActive(subUsers', mcall[p].target + 1) = 0
                 ELSE /\ mcall'[p].err = ""
                      /\ ~HasNewSubUserNeeded(emitted')
                      /\ ~HasNewSubUserNeeded(mcall'[p].events)]_vars

\* A call has just failed on a non-empty pool: the scan checked a credential
\* and found none usable.
C4_Witness ==
  \E p \in DOMAIN mcall :
    /\ mcall[p].pc = "done"
    /\ mcall[p].err = "ProxyError"
    /\ Len(subUsers) >= 1
    /\ lastRead.sub # 0
    /\ emitted # <<>>
    /\ emitted[Len(emitted)] = <<"new-subuser-needed", 0>>

\* ------------------------------------------------------------------ C5

\* C5 as stated, for HttpClient: a request sent through the instance the
\* client has cached is not sent with a sub-user the manager has already
\* marked Exhausted.
C5_NoRequestOnExhausted ==
  [][\A h \in HttpProcs :
       (hcall[h].pc # "req" /\ hcall'[h].pc = "req" /\ axiosInstance # NoInstance) =>
          /\ ~hcall'[h].sentExhausted
          /\ subUsers[axiosInstance.user].status # "exhausted"]_vars

\* ------------------------------------------------------------------ C6

\* C6 as stated, in its consequence: the HTML a getPageContent call returns
\* is the content of the URL that call requested.
C6_ReturnedHtmlIsOfRequestedUrl ==
  \A b \in BrowserProcs :
    (bcall[b].pc = "done" /\ bcall[b].err = "") => bcall[b].html.for = bcall[b].url

\* ------------------------------------------------------------------ C7

\* The execution context is discarded: no open active page, no connected
\* browser and no session id are left for the next call.
ContextDiscarded(ap, br, sid, ps, bs) ==
  /\ ap = 0 \/ ~ps[ap].open
  /\ br = 0 \/ ~bs[br].connected
  /\ sid = 0

CallEnds(b) == bcall[b].pc # "done" /\ bcall'[b].pc = "done"

\* C7 as stated: when a getPageContent call ends with the content-mismatch
\* error, the page, the browser and the session id have been discarded.
C7_MismatchDiscardsContext ==
  [][\A b \in BrowserProcs :
       (CallEnds(b) /\ bcall'[b].err = "ScraperError"
          /\ bcall'[b].code = "PAGE_MISMATCH") =>
         ContextDiscarded(activePage', browser', browserSessionId', pages', browsers')]_vars

\* ------------------------------------------------------------------ C8

\* C8 as stated, in its challenge-not-bypassed case: when a getPageContent
\* call ends with the ScraperError of a challenge that did not clear, the
\* page, the browser and the session id have been discarded.
C8_ChallengeFailureDiscardsContext ==
  [][\A b \in BrowserProcs :
       (CallEnds(b) /\ bcall'[b].err = "ScraperError" /\ bcall'[b].code = "") =>
         ContextDiscarded(activePage', browser', browserSessionId', pages', browsers')]_vars

\* ------------------------------------------------------------------ C9

\* C9: when the request of a get or post call answers 403, that step
\* discards the axios instance and the session id, ends the call with a
\* RateLimitError (not a ProxyError), and schedules no further attempt.
C9_ForbiddenDiscardsIdentity ==
  [][\A h \in HttpProcs :
       (hcall[h].pc = "req" /\ hcall'[h] # hcall[h] /\ lastAnswer'.status = 403) =>
          /\ axiosInstance' = NoInstance
          /\ httpSessionId' = 0
          /\ hcall'[h].pc = "done"
          /\ hcall'[h].err = "RateLimitError"
          /\ hcall'[h].attempt = hcall[h].attempt]_vars

\* A call has just ended on a 403: RateLimitError, identity discarded.
C9_Witness ==
  /\ lastAnswer.status = 403
  /\ axiosInstance = NoInstance
  /\ httpSessionId = 0
  /\ \E h \in HttpProcs : hcall[h].pc = "done" /\ hcall[h].err = "RateLimitError"

\* ------------------------------------------------------------------ C10

\* The failures C10 calls transport-level.
C10_TransportFailure(f) ==
  \/ f.code \in {"ECONNRESET", "ETIMEDOUT", "ECONNREFUSED"}
  \/ f.status \in {429, 502, 503}

\* C10 as stated: a call that a transport-level failure has just ended
\* with a ProxyError has used up its attempts.
C10_SurfacedOnlyAfterRetries ==
  \A h \in HttpProcs :
    (C10_TransportFailure(lastAnswer) /\ hcall[h].pc = "done"
       /\ hcall[h].err = "ProxyError") =>
      hcall[h].attempt = DefaultMaxRetries

\* ------------------------------------------------------------------ C11

\* C11 as stated, for HttpClient: every request is sent with the token of
\* the cached identity, and the token of the cached identity is replaced
\* only after reset() has discarded it.
C11_TokenHeldUntilReset ==
  [][/\ \A h \in HttpProcs :
          (hcall[h].pc # "req" /\ hcall'[h].pc = "req") =>
             hcall'[h].sid = axiosInstance'.sid
     /\ (axiosInstance # NoInstance /\ axiosInstance' # NoInstance) =>
          axiosInstance'.sid = axiosInstance.sid]_vars

\* ------------------------------------------------------------------ C12

ResetAwaits == {"rclose1", "rclose2"}

\* C12 as stated, for BrowserClient: when reset() returns, whether or not
\* its close calls succeeded, no open page, no connected browser and no
\* session id are left, so that the next request asks getProxyConfig again.
C12_ResetDropsContext ==
  [][\A b \in BrowserProcs :
       (bcall[b].pc \in ResetAwaits /\ bcall'[b].pc \notin ResetAwaits) =>
         ContextDiscarded(activePage', browser', browserSessionId', pages', browsers')]_vars

\* ------------------------------------------------------------------ C13

\* C13: in every reachable state of the pool, a sub-user whose status is
\* 'exhausted' has a recorded trafficUsed of at least its recorded
\* trafficLimit.
C13_ExhaustedOnlyAtQuota ==
  \A i \in 1..Len(subUsers) :
    subUsers[i].status = "exhausted" =>
      subUsers[i].trafficUsed >= subUsers[i].trafficLimit

\* ------------------------------------------------------------------ C14

\* The step wrote what a quota check read: the one way the claim lets a
\* recorded trafficUsed change.
WrittenFromRead(i) ==
  /\ lastRead' # NoRead
  /\ ~lastRead'.failed
  /\ lastRead'.sub = i
  /\ subUsers'[i].trafficUsed = lastRead'.traffic_used

\* C14: a sub-user's recorded trafficUsed never goes down, except where a
\* quota check writes the lower value it has read from the quota tracker
\* (the tracker was reset).  Records are matched by id, since a restart
\* rebuilds the pool.
C14_UsedNeverDecreases ==
  [][\A i \in 1..Len(subUsers), j \in 1..Len(subUsers') :
       (subUsers[i].id = subUsers'[j].id) =>
          \/ subUsers'[j].trafficUsed >= subUsers[i].trafficUsed
          \/ i = j /\ WrittenFromRead(i)]_vars

\* ------------------------------------------------------------------ C15

\* The step handled a quota read that failed.
IsFailedCheckStep == lastRead'.sub # 0 /\ lastRead'.failed

\* The active sub-users of the pool from position `from` on.
ActiveFrom(from) == {j \in from..Len(subUsers) : subUsers[j].status = "active"}

IsFreshCredential(su) ==
  /\ su.status = "active"
  /\ su.trafficUsed = 0
  /\ su.trafficLimit = CreatedLimitMB * BytesPerMB

InStore(u, db) == \E r \in db : r.id = u
InPool(u, subs) == \E i \in 1..Len(subs) : subs[i].id = u

\* C17: an addExistingSubUser call is rejected with the Validation error
\* exactly when the identity is in the store as the call begins, and with
\* NotFound only for an identity the provider does not have; an identity
\* the provider does not have is never added.  A rejected call (these two,
\* or a failed upstream call) leaves the pool and the store as they were.
\* A call that succeeds appends one credential to the pool whose usedBytes
\* and quotaBytes are those of the traffic read it made, whose status is
\* Exhausted if used >= quota and Active otherwise, and whose record is
\* then in the store; the selection is untouched throughout.  (A restart
\* ends the call without an answer: acall goes back to idle.)
C17_AddExistingClassifies ==
  [][(acall' # acall /\ acall'.pc # "idle") =>
       LET u == acall'.username IN
       /\ currentSubUser' = currentSubUser
       /\ acall.pc \in {"idle", "done"} =>
            /\ (acall'.err = "ValidationError") <=> InStore(u, dbSubUsers)
            /\ acall'.err \in {"", "ValidationError"}
            /\ InStore(u, dbSubUsers) => acall'.pc = "done"
       /\ acall'.err = "NotFoundError" => u \notin UpstreamAccounts
       /\ (acall.pc = "list" /\ u \notin UpstreamAccounts) =>
            acall'.pc = "done" /\ acall'.err \in {"NotFoundError", "ApiError"}
       /\ (acall'.pc # "done" \/ acall'.err # "") =>
            /\ subUsers' = subUsers
            /\ dbSubUsers' = dbSubUsers
            /\ acall'.ret = 0
       /\ (acall'.pc = "done" /\ acall'.err = "") =>
            LET su == subUsers'[Len(subUsers')]
                t == acall'.read
            IN
            /\ acall.pc = "traffic"
            /\ u \in UpstreamAccounts
            /\ ~InPool(u, subUsers)
            /\ Len(subUsers') = Len(subUsers) + 1
            /\ SubSeq(subUsers', 1, Len(subUsers)) = subUsers
            /\ su.id = u /\ acall'.ret = u
            /\ ~t.failed
            /\ su.trafficUsed = t.traffic_used
            /\ su.trafficLimit = t.traffic_limit
            /\ su.status = IF su.trafficUsed >= su.trafficLimit THEN "exhausted" ELSE "active"
            /\ dbSubUsers' = dbSubUsers \cup {su}]_vars

\* An existing sub-user at its quota has just been added as Exhausted to a
\* pool that held a created credential, and its record is in the store.
C17_Witness ==
  /\ acall.pc = "done"
  /\ acall.err = ""
  /\ Len(subUsers) >= 2
  /\ subUsers[Len(subUsers)].id = acall.ret
  /\ subUsers[Len(subUsers)].status = "exhausted"
  /\ subUsers[Len(subUsers)] \in dbSubUsers

\* ------------------------------------------------------------------ C18

\* The sum of the first n sub-users' trafficUsed (or trafficLimit, with
\* limit = TRUE) as a byte count b: b.whole * 2^20 + b.bytes.
RECURSIVE ByteSum(_, _, _)
ByteSum(subs, n, limit) ==
  IF n = 0 THEN [whole |-> 0, bytes |-> 0]
  ELSE LET x == IF limit THEN subs[n].trafficLimit ELSE subs[n].trafficUsed
           r == ByteSum(subs, n - 1, limit)
           b == r.bytes + (x % BytesPerMB)
       IN [whole |-> r.whole + (x \div BytesPerMB) + (b \div BytesPerMB),
           bytes |-> b % BytesPerMB]

\* The returned number r (r.whole + r.bytes / 2^20) is the byte count b.
EqualsBytes(r, b) ==
  /\ r.bytes = 0
  /\ b.whole < 2048
  /\ r.whole = b.whole * BytesPerMB + b.bytes

\* The returned number r is the byte count b divided by 2^20.
EqualsMegabytes(r, b) == r.whole = b.whole /\ r.bytes = b.bytes

CountWithStatus(st) == Cardinality({i \in 1..Len(subUsers) : subUsers[i].status = st})

\* What C18 says of a getStatistics call apart from the two sums: nothing
\* of the manager changes, nothing is notified, no quota is read and no
\* create call is sent; the counts and the selection's identity returned.
StatisticsFrame ==
  /\ UNCHANGED <<subUsers, currentSubUser, dbSubUsers, acall, mcall, timerPc,
                 timerTarget, upstreamCreates>>
  /\ emitted' = <<>>
  /\ lastRead' = NoRead
  /\ stats'.totalSubUsers = Len(subUsers)
  /\ stats'.activeSubUsers = CountWithStatus("active")
  /\ stats'.exhaustedSubUsers = CountWithStatus("exhausted")
  /\ stats'.currentSubUser =
       IF currentSubUser = 0 THEN 0 ELSE subUsers[currentSubUser].id

\* C18 as stated: getStatistics is read-only and returns the counts, the
\* selection's identity and the sums of usedBytes and of quotaBytes.
C18_AsStated ==
  [][stats'.called =>
       /\ StatisticsFrame
       /\ EqualsBytes(stats'.totalTrafficUsedMB, ByteSum(subUsers, Len(subUsers), FALSE))
       /\ EqualsBytes(stats'.totalTrafficLimitMB, ByteSum(subUsers, Len(subUsers), TRUE))]_vars

\* C18 amended: getStatistics is read-only and returns the counts, the
\* selection's identity and the sums of usedBytes and of quotaBytes in MB
\* (each sum divided by 1024 * 1024).
C18_StatisticsReadOnly ==
  [][stats'.called =>
       /\ StatisticsFrame
       /\ EqualsMegabytes(stats'.totalTrafficUsedMB, ByteSum(subUsers, Len(subUsers), FALSE))
       /\ EqualsMegabytes(stats'.totalTrafficLimitMB, ByteSum(subUsers, Len(subUsers), TRUE))]_vars

\* getStatistics has just answered for a pool with an Active and an
\* Exhausted credential, a selection, and a usage that is no whole MB.
C18_Witness ==
  /\ stats.called
  /\ stats.totalSubUsers >= 2
  /\ stats.activeSubUsers >= 1
  /\ stats.exhaustedSubUsers >= 1
  /\ stats.currentSubUser # 0
  /\ stats.totalTrafficUsedMB.bytes # 0

\* ------------------------------------------------------------------ C19

\* C19: the store's row of every credential of the pool (what
\* database.getSubUsers returns, and what a restart loads) has the status
\* and the usedBytes of the manager's record of it.
C19_StoreMatchesPool ==
  \A i \in 1..Len(subUsers) :
    \E r \in dbSubUsers :
      /\ r.id = subUsers[i].id
      /\ r.status = subUsers[i].status
      /\ r.trafficUsed = subUsers[i].trafficUsed

\* ------------------------------------------------------------------ C20

\* The instant an ISO string stands for, as a clock value.
InstantOf(text) == CHOOSE k \in 0..(MaxClock + 2) : ToISOString(k) = text

\* C20: a cache read (getPerfume, getPerfumeByUrl, getCachedSearch) never
\* returns an entry whose cachedUntil has passed (the claim's weaker half:
\* an entry that expires at this very instant is let through here).
C20_ExpiredNeverReturned ==
  lastGet.hit => InstantOf(lastGet.cached_until) >= clock

\* ------------------------------------------------------------------ C21

\* C21: after any sequence of cache writes there is at most one row per
\* perfume URL and at most one row per search query.
C21_OneEntryPerKey ==
  /\ \A r1, r2 \in perfumes : r1.url = r2.url => r1 = r2
  /\ \A j, k \in 1..Len(searchCache) :
       searchCache[j].query = searchCache[k].query => j = k


\* Another sub-user of the pool than u has status active.
OtherActive(subs, u) ==
  \E j \in 1..Len(subs) : subs[j].id # u /\ subs[j].status = "active"

\* C22: the first instance created after POST /api/proxy/rotate uses another
\* sub-user than the instance the rotation dropped, whenever the pool holds
\* another active sub-user at that moment.
C22_RotateChangesSubUser ==
  [][(rotatedFrom # 0 /\ axiosInstance = NoInstance /\ axiosInstance' # NoInstance
        /\ OtherActive(subUsers, rotatedFrom) /\ OtherActive(subUsers', rotatedFrom))
       => axiosInstance'.user # rotatedFrom]_vars


\* A rating value within [0, 10] and a vote count within [1, 1000000], for
\* the fields that are set.
ValueInRange(x) == x.has => (~x.nan /\ x.n >= 0 /\ x.n <= 1000)
CountInRange(x) == x.has => (~x.nan /\ x.n >= 1 /\ x.n <= 1000000)

\* C23: for each of the five dimensions extractAllRatings returns no value
\* outside [0, 10] and no vote count outside [1, 1000000].
C23_RatingsInRange ==
  ratings.done =>
    /\ ValueInRange(ratings.scent) /\ CountInRange(ratings.totalRatings)
    /\ ValueInRange(ratings.longevity) /\ CountInRange(ratings.longevityRatingCount)
    /\ ValueInRange(ratings.sillage) /\ CountInRange(ratings.sillageRatingCount)
    /\ ValueInRange(ratings.bottle) /\ CountInRange(ratings.bottleRatingCount)
    /\ ValueInRange(ratings.priceValue) /\ CountInRange(ratings.priceValueRatingCount)

\* The data-type attribute of a dimension's container on the page.
DimensionDataType(dim) ==
  CASE dim = "Longevity" -> "durability"
    [] dim = "Sillage" -> "sillage"
    [] dim = "Bottle" -> "bottle"
    [] dim = "PriceValue" -> "pricing"

\* The value and count fields extractAllRatings returned for a dimension.
ReturnedFor(dim) ==
  CASE dim = "Longevity" -> <<ratings.longevity, ratings.longevityRatingCount>>
    [] dim = "Sillage" -> <<ratings.sillage, ratings.sillageRatingCount>>
    [] dim = "Bottle" -> <<ratings.bottle, ratings.bottleRatingCount>>
    [] dim = "PriceValue" -> <<ratings.priceValue, ratings.priceValueRatingCount>>

\* The first validated result of the container, the separated text and the
\* concatenated text, in that order; not set when there is none.
FirstValidated(d, dim) ==
  LET m == IF ContainerRating(d, DimensionDataType(dim)).found
             THEN ContainerRating(d, DimensionDataType(dim))
           ELSE IF ExtractRatingSeparated(d.body, dim).found
             THEN ExtractRatingSeparated(d.body, dim)
           ELSE ExtractRatingConcatenated(d.body, dim)
  IN IF m.found THEN <<Field(m.value), Field(m.count)>> ELSE <<Unset, Unset>>

\* C24: for each rating dimension the structured-attribute, separated-text
\* and concatenated-text strategies run in that order and the first validated
\* result is what is returned; with none the fields are not set.
C24_StrategyChain ==
  ratings.done =>
    \A dim \in {"Longevity", "Sillage", "Bottle", "PriceValue"} :
      ReturnedFor(dim) = FirstValidated(doc, dim)

\* C26: applying processPerfumeName to the name it produced yields the same
\* name again.
C26_NameIdempotent ==
  Len(nameRuns) = 2 => nameRuns[2].name = nameRuns[1].name

\* The query equals 'brand name', case-insensitive and trimmed.
IsExactQuery(query, brand, name) ==
  Trim(ToLowerCase(query))
    = Trim(ToLowerCase(brand)) \o <<" ">> \o Trim(ToLowerCase(name))

\* C25: every score calculateRelevance returns is within [0, EXACT_COMBINED]
\* and is EXACT_COMBINED when the query equals 'brand name'; no result whose
\* score is below MIN_RELEVANCE is in the output of search, and every result
\* of the output is one that was scored at or above it.
C25_RelevanceCapAndFloor ==
  searchRun.done =>
    /\ \A i \in 1..Len(searchRun.scored) :
         LET x == searchRun.scored[i] IN
           /\ x.relevance >= 0 /\ x.relevance <= 100
           /\ IsExactQuery(searchArgs.query, x.brand, x.name) => x.relevance = 100
           /\ x.relevance < 5 =>
                ~\E j \in 1..Len(searchRun.returned) :
                    /\ searchRun.returned[j].brand = x.brand
                    /\ searchRun.returned[j].name = x.name
    /\ \A j \in 1..Len(searchRun.returned) :
         \E i \in 1..Len(searchRun.scored) :
           /\ searchRun.scored[i].brand = searchRun.returned[j].brand
           /\ searchRun.scored[i].name = searchRun.returned[j].name
           /\ searchRun.scored[i].relevance >= 5

\* C25 witness: a search that scored an exact 'brand name' match at 100 and
\* returned it, and scored another link below the floor and left it out.
C25_Witness ==
  /\ searchRun.done
  /\ Len(searchRun.returned) >= 1
  /\ \E i \in 1..Len(searchRun.scored) :
       /\ IsExactQuery(searchArgs.query, searchRun.scored[i].brand, searchRun.scored[i].name)
       /\ searchRun.scored[i].relevance = 100
  /\ \E i \in 1..Len(searchRun.scored) : searchRun.scored[i].relevance < 5

\* C27: a getProxyConfig call that returns a credential returns one whose
\* status is not Exhausted at the moment of the return, whatever ran while the
\* call was suspended at its quota-check await.
C27_RevalidatedAfterAwait ==
  \A p \in DOMAIN mcall :
    (mcall[p].pc = "done" /\ mcall[p].err = "" /\ mcall[p].ret # 0) =>
       mcall[p].retStatus # "exhausted"

\* A check of the timer begins only while the interval is set and a
\* credential is selected, and it is a check of that credential; a cleared
\* interval stays cleared.
TimerStepRule ==
  /\ (timerPc = "idle" /\ timerPc' = "checking") =>
       (checkInterval /\ currentSubUser # 0 /\ timerTarget' = currentSubUser)
  /\ ~checkInterval => ~checkInterval'

\* C28: the timer starts a quota check only while the interval is set and a
\* credential is selected, and checks that credential; with no caller involved
\* a selected credential whose usage has reached its quota is eventually
\* marked Exhausted, unless monitoring is stopped or another credential is
\* selected first; once the interval is cleared it stays cleared.
C28_BackgroundMonitoring ==
  /\ [][TimerStepRule]_vars
  /\ \A i \in 1..MaxSubUsers :
       (currentSubUser = i /\ checkInterval)
         ~> \/ (i <= Len(subUsers) /\ subUsers[i].status = "exhausted")
            \/ ~checkInterval
            \/ currentSubUser # i

\* C28 witness: the timer's check has just marked the selected credential
\* Exhausted while no getProxyConfig call was in progress, and monitoring was
\* stopped after that check had begun.
C28_Witness ==
  /\ currentSubUser # 0
  /\ lastRead.sub = currentSubUser
  /\ subUsers[currentSubUser].status = "exhausted"
  /\ emitted = << <<"subuser-exhausted", currentSubUser>> >>
  /\ \A p \in DOMAIN mcall : mcall[p].pc = "idle"
  /\ ~checkInterval

\* No sub-user at the positions lo..hi of the pool has status active.
NoneActive(subs, lo, hi) == \A k \in lo..hi : k <= Len(subs) => subs[k].status # "active"

\* C29: the scan of getProxyConfig goes through the pool in insertion order:
\* it moves on to the first credential whose status is Active, passing only
\* credentials that are not; a check that reads Active and not near-limit
\* ends the call with that credential returned and made the current
\* selection; any other read moves the scan on, the selection unchanged, and
\* the call fails only when no Active credential is left after the last one
\* checked.
C29_ScanInOrder ==
  [][\A p \in Callers :
       LET c == mcall[p]
           d == mcall'[p]
           lo == IF c.pc = "scan" THEN c.target + 1 ELSE 1
       IN (d # c) =>
          /\ d.pc = "scan" =>
               /\ d.target \in lo..Len(subUsers')
               /\ subUsers'[d.target].status = "active"
               /\ NoneActive(subUsers', lo, d.target - 1)
          /\ (c.pc = "scan" /\ d.pc = "done" /\ d.err = "") =>
               /\ lastRead'.sub = c.target
               /\ ReadClass(lastRead') = "ok"
               /\ d.ret = c.target
               /\ currentSubUser' = c.target
          /\ (c.pc = "scan" /\ ~(d.pc = "done" /\ d.err = "")) =>
               /\ lastRead'.sub = c.target
               /\ ReadClass(lastRead') # "ok"
               /\ currentSubUser' = currentSubUser
          /\ (d.pc = "done" /\ d.err # "") =>
               NoneActive(subUsers', lo, Len(subUsers'))]_vars

\* C29 witness: a call has ended in the scan with the second credential of
\* the pool returned and selected, after the check of the first one, which is
\* still Active, read near-limit.
C29_Witness ==
  \E p \in Callers :
    /\ mcall[p].pc = "done"
    /\ mcall[p].path = "scan"
    /\ mcall[p].ret = 2
    /\ currentSubUser = 2
    /\ subUsers[1].status = "active"
    /\ subUsers[1].lastChecked = "check"
    /\ <<"subuser-near-limit", 1>> \in {mcall[p].events[k] : k \in 1..Len(mcall[p].events)}

\* An error with one of the retryable codes, or status 429, 502 or 503.
IsRetryableCode(e) ==
  \/ e.code \in {"ECONNRESET", "ETIMEDOUT", "ENOTFOUND", "ECONNREFUSED", "ENETUNREACH",
                 "EAI_AGAIN"}
  \/ e.status \in {429, 502, 503}

RECURSIVE Power(_, _)
Power(b, n) == IF n = 0 THEN 1 ELSE b * Power(b, n - 1)

\* The claim's wait before the k-th retry.
ClaimedWait(k) ==
  IF 1000 * Power(2, k - 1) <= 10000 THEN 1000 * Power(2, k - 1) ELSE 10000

\* What holds of a retryWithBackoff call at every moment.
RetryRule ==
  /\ rcall.attempts <= rcall.maxRetries + 1
  /\ \A k \in 1..Len(rcall.waits) :
       /\ rcall.waits[k] = ClaimedWait(k)
       /\ rcall.waits[k] <= 10000
       /\ k > 1 => rcall.waits[k - 1] <= rcall.waits[k]
  /\ rcall.pc # "idle" =>
       Len(rcall.waits) = (IF rcall.pc = "wait" THEN rcall.attempts ELSE rcall.attempts - 1)
  /\ rcall.pc = "thrown" =>
       /\ rcall.thrown = rcall.lastError
       /\ rcall.thrown.attempt = rcall.attempts - 1
       /\ IsRetryableCode(rcall.thrown.e) => rcall.attempts = rcall.maxRetries + 1
  /\ rcall.pc = "returned" => rcall.result = rcall.attempts

\* C30: a retryWithBackoff call makes at most maxRetries + 1 attempts; when
\* fn keeps failing with a retryable error it makes exactly maxRetries + 1
\* and throws the error of the last one; the wait before the k-th retry is
\* min(1000 * 2^(k-1), 10000), so the waits never decrease and never exceed
\* 10000; when fn succeeds its result is returned, and a call that has
\* returned or thrown makes no further attempt.
C30_RetryTerminates ==
  /\ []RetryRule
  /\ [][rcall.pc \in {"returned", "thrown"} => rcall' = rcall]_vars

\* C30 witness: fn has failed with a retryable error six times, the fifth
\* wait was cut to maxDelay, and the last error has been thrown.
C30_Witness ==
  /\ rcall.pc = "thrown"
  /\ rcall.maxRetries = 5
  /\ rcall.attempts = 6
  /\ rcall.waits = <<1000, 2000, 4000, 8000, 10000>>
  /\ rcall.thrown.attempt = 5

\* A step in which fn rejects with an error that is not retryable.
RejectedNotRetryable ==
  /\ rcall.pc = "fn"
  /\ rcall'.pc \in {"wait", "thrown"}
  /\ ~IsRetryableCode(rcall'.lastError.e)

\* What such a step does: the error just caught is thrown, nothing is waited
\* and fn is not called again.
ThrownAtOnce ==
  /\ rcall'.pc = "thrown"
  /\ rcall'.thrown = rcall'.lastError
  /\ rcall'.thrown.attempt = rcall.attempt
  /\ rcall'.waits = rcall.waits
  /\ rcall'.attempts = rcall.attempts

\* C31: when an attempt inside retryWithBackoff fails with an error that is
\* neither a listed connection error code nor HTTP 429/502/503, that same
\* error is thrown after that attempt, with no delay and no further attempt.
C31_NonRetryablePropagates ==
  /\ [][RejectedNotRetryable => ThrownAtOnce]_vars
  /\ [][rcall.pc = "thrown" => rcall' = rcall]_vars

\* C31 witness: with three retries allowed, the first attempt failed with a
\* 404 and the call has thrown it without waiting.
C31_Witness ==
  /\ rcall.pc = "thrown"
  /\ rcall.maxRetries = 3
  /\ rcall.attempts = 1
  /\ rcall.waits = <<>>
  /\ rcall.thrown.e.status = 404

\* The title a challenge page carries, as the claim names it.
MarksChallenge(title) == title \in {"Just a moment...", "Attention Required! | Cloudflare"}

\* The title read after the wait for the challenge: a title that still
\* marks a challenge fails the call with the ScraperError that carries no
\* code, and a call that returns, returns html read after the wait.
AfterChallengeRule(b) ==
  (bcall[b].pc = "title" /\ bcall[b].phase = 2 /\ bcall'[b] # bcall[b]) =>
    IF MarksChallenge(pages[bcall[b].page].doc.title)
      THEN /\ bcall'[b].pc = "done"
           /\ bcall'[b].err = "ScraperError"
           /\ bcall'[b].code = ""
      ELSE bcall'[b].pc = "done" /\ bcall'[b].err = "" =>
             bcall'[b].html = bcall[b].html

\* No getPageContent call has returned the html of a challenge page.
NoChallengeHtmlReturned ==
  \A b \in BrowserProcs :
    (bcall[b].pc = "done" /\ bcall[b].err = "") => ~MarksChallenge(bcall[b].html.title)

\* C32 as stated: after the wait for a challenge, a title that still marks
\* a challenge fails the call with the challenge-not-bypassed ScraperError,
\* a cleared challenge returns the html read after the wait, and the html
\* of a challenge page is never returned.
C32_ChallengeHandling ==
  /\ [][\A b \in BrowserProcs : AfterChallengeRule(b)]_vars
  /\ []NoChallengeHtmlReturned

\* The number of decimals the claim gives the value of a run of n digits,
\* 0 when the run is too short to be split.
ClaimedDecimals(dec) ==
  IF Len(dec) = 4 THEN 1
  ELSE IF Len(dec) = 5
    THEN IF DigitsValue(SubSeq(dec, 2, 5)) >= 1000 THEN 1 ELSE 2
  ELSE IF Len(dec) >= 6 THEN 2
  ELSE 0

\* The claim's candidate for "Longevity int.dec Ratings": the value in
\* hundredths and the count.
ClaimedValue(int, dec) ==
  DigitsValue(int) * 100
    + (IF ClaimedDecimals(dec) = 1 THEN DigitsValue(SubSeq(dec, 1, 1)) * 10
       ELSE DigitsValue(SubSeq(dec, 1, 2)))
ClaimedCount(int, dec) == DigitsValue(SubSeq(dec, ClaimedDecimals(dec) + 1, Len(dec)))

\* The candidate passes the gate: the value in [0, 10], the count in
\* [1, 1000000].
ClaimedAccepted(int, dec) ==
  /\ ClaimedDecimals(dec) > 0
  /\ ClaimedValue(int, dec) >= 0 /\ ClaimedValue(int, dec) <= 1000
  /\ ClaimedCount(int, dec) >= 1 /\ ClaimedCount(int, dec) <= 1000000

\* The longevity fields are the claim's candidate, or unset.
SplitAsClaimed(int, dec) ==
  IF ClaimedAccepted(int, dec)
    THEN /\ ratings.longevity = [has |-> TRUE, nan |-> FALSE, n |-> ClaimedValue(int, dec)]
         /\ ratings.longevityRatingCount =
              [has |-> TRUE, nan |-> FALSE, n |-> ClaimedCount(int, dec)]
    ELSE /\ ~ratings.longevity.has
         /\ ~ratings.longevityRatingCount.has

\* C33: for a text "Longevity d.DDDD Ratings" that only the concatenated
\* strategy can read, 4 trailing digits give 1 decimal and a 3-digit count,
\* 5 give 1 decimal and a 4-digit count only if that count is at least
\* 1000, else 2 decimals and a 3-digit count, 6 or more give 2 decimals
\* and the remaining digits as count; a candidate outside [0,10] or
\* [1,1000000] is not accepted.
C33_ConcatenatedSplit ==
  \A int \in IntegerParts, dec \in DecimalRuns :
    (/\ ratings.done
     /\ doc.body = (<<"Longevity", " ">> \o int \o <<".">> \o dec \o <<" ", "Ratings">>)
     /\ ~doc.containers["durability"].present) =>
      SplitAsClaimed(int, dec)

\* C33 witness: "Longevity 6.9406 Ratings" has been read as 6.9 with 406
\* ratings.
C33_Witness ==
  /\ ratings.done
  /\ doc.body = <<"Longevity", " ", "6", ".", "9", "4", "0", "6", " ", "Ratings">>
  /\ ~doc.containers["durability"].present
  /\ ratings.longevity = [has |-> TRUE, nan |-> FALSE, n |-> 690]
  /\ ratings.longevityRatingCount = [has |-> TRUE, nan |-> FALSE, n |-> 406]

\* The links of the page in the order the selectors meet them, and the
\* place at which a URL is met first.
LinksInOrder == searchArgs.selectors[1] \o searchArgs.selectors[2]
Discovered(url) ==
  CHOOSE k \in 1..Len(LinksInOrder) :
    /\ <<LinksInOrder[k].brand, LinksInOrder[k].name>> = url
    /\ \A j \in 1..(k - 1) : <<LinksInOrder[j].brand, LinksInOrder[j].name>> # url

\* C34: the output of search(query, limit) holds only candidates scored at
\* or above the relevance floor, in non-increasing score order with equal
\* scores in discovery order, no URL twice, and at most limit results.
C34_RankedOutput ==
  searchRun.done =>
    /\ Len(searchRun.returned) <= searchArgs.limit
    /\ Len(searchRun.returned) = Len(searchRun.results)
    /\ \A i \in 1..Len(searchRun.results) :
         /\ searchRun.returned[i].url = searchRun.results[i].url
         /\ searchRun.results[i].relevance >= 5
         /\ \E k \in 1..Len(LinksInOrder) :
              /\ LinksInOrder[k].valid
              /\ <<LinksInOrder[k].brand, LinksInOrder[k].name>> = searchRun.results[i].url
    /\ \A i, j \in 1..Len(searchRun.results) :
         i < j =>
           /\ searchRun.results[i].url # searchRun.results[j].url
           /\ searchRun.results[i].relevance >= searchRun.results[j].relevance
           /\ searchRun.results[i].relevance = searchRun.results[j].relevance =>
                Discovered(searchRun.results[i].url) < Discovered(searchRun.results[j].url)

\* C34 witness: a search whose two results have the same score and are
\* returned in the order they were met.
C34_Witness ==
  /\ searchRun.done
  /\ Len(searchRun.returned) = 2
  /\ searchRun.results[1].relevance = searchRun.results[2].relevance
  /\ Discovered(searchRun.results[1].url) < Discovered(searchRun.results[2].url)
  /\ Len(searchRun.scored) = 2

\* The parts of s between the separators.
RECURSIVE TokensFrom(_, _, _)
TokensFrom(s, sep, cur) ==
  IF s = <<>> THEN <<cur>>
  ELSE IF Head(s) = sep THEN <<cur>> \o TokensFrom(Tail(s), sep, <<>>)
  ELSE TokensFrom(Tail(s), sep, Append(cur, Head(s)))

IsFourDigitToken(t) ==
  Len(t) = 4 /\ \A i \in 1..4 : t[i] \in {"0", "1", "2", "3", "4", "5", "6", "7", "8", "9"}

\* 1800..currentYear+1, the year being 2026.
InClaimedRange(y) == y >= 1800 /\ y <= 2026 + 1

RawTokens == TokensFrom(rawName, "_", <<>>)
LastRawToken == RawTokens[Len(RawTokens)]
HasTrailingYear ==
  IsFourDigitToken(LastRawToken) /\ InClaimedRange(DigitsValue(LastRawToken))

\* The words of the name processPerfumeName returned.
ReturnedWords == TokensFrom(nameRuns[1].name, " ", <<>>)

\* C35 as stated: the trailing 4-digit token of the raw name is the year
\* and is removed from the name exactly when it lies in 1800..currentYear+1;
\* otherwise no year is returned and every 4-digit token stays in the name.
C35_TrailingYear ==
  Len(nameRuns) >= 1 =>
    IF HasTrailingYear
      THEN /\ nameRuns[1].year = DigitsValue(LastRawToken)
           /\ Len(ReturnedWords) < Len(RawTokens)
      ELSE /\ nameRuns[1].year = 0
           /\ \A k \in 1..Len(RawTokens) :
                IsFourDigitToken(RawTokens[k]) =>
                  \E j \in 1..Len(ReturnedWords) : ReturnedWords[j] = RawTokens[k]

\* Operation p posts /auth in this step; p sends its request in this step.
SendsLogin(p) == dcall[p].pc # "login" /\ dcall'[p].pc = "login"
SendsRequest(p) == dcall[p].pc # "request" /\ dcall'[p].pc = "request"

\* What a step of the provider client keeps to.
AuthStepRule(p) ==
  /\ usingApiKey' = usingApiKey
  /\ usingApiKey =>
       /\ ~SendsLogin(p)
       /\ SendsRequest(p) => dcall'[p].auth = [scheme |-> "key", token |-> 0]
  /\ ~usingApiKey =>
       /\ SendsRequest(p) =>
            /\ authToken' # 0
            /\ dcall'[p].auth = [scheme |-> "bearer", token |-> authToken']
       /\ SendsLogin(p) => authToken = 0
       /\ (dcall[p].pc = "login" /\ dcall'[p].pc # "login" /\ authToken' = authToken) =>
            /\ dcall'[p].pc = "failed"
            /\ dcall'[p].request = ""

\* C36: the auth mode never changes; with an API key no login call is
\* issued and every request carries the key; with login and password every
\* provisioning request is sent with the bearer token of a successful
\* login, no login is issued while a token is held, and a failed login
\* fails the operation without its request being sent.
C36_AuthMode == [][\A p \in DecodoProcs : AuthStepRule(p)]_vars

\* C36 witness: in login/password mode one login has succeeded, one
\* operation has ended and the other has sent its request with that token.
C36_Witness ==
  /\ ~usingApiKey
  /\ issuedTokens = 1
  /\ authToken = 1
  /\ dcall["d1"].pc = "done"
  /\ dcall["d2"].pc = "request"
  /\ dcall["d2"].op = "create"
  /\ dcall["d2"].auth = [scheme |-> "bearer", token |-> 1]

\* The near-limit and exhausted notifications a call has emitted.
IsQuotaNotification(e) == e[1] \in {"subuser-near-limit", "subuser-exhausted"}

\* C37 as stated: a getProxyConfig call does not check the credential it
\* checked as the current selection a second time in its scan, and it has
\* emitted at most one near-limit or exhausted notification per credential.
C37_OneCheckPerCredential ==
  \A p \in Callers :
    /\ ~(/\ mcall[p].pc = "scan"
         /\ mcall[p].cached # "none"
         /\ mcall[p].target = mcall[p].cachedSub)
    /\ \A i, j \in 1..Len(mcall[p].events) :
         (/\ i < j
          /\ IsQuotaNotification(mcall[p].events[i])
          /\ IsQuotaNotification(mcall[p].events[j])) =>
           mcall[p].events[i][2] # mcall[p].events[j][2]

\* No step takes a credential's status from Exhausted to anything else.
ExhaustedStays ==
  \A i \in 1..Len(subUsers) :
    subUsers[i].status = "exhausted" => subUsers'[i].status = "exhausted"

\* The scan of call p begins the quota check of a credential in this step;
\* it selects a credential in this step.
ScanBeginsCheck(p) ==
  /\ mcall'[p].pc = "scan"
  /\ mcall[p].pc # "scan" \/ mcall'[p].target # mcall[p].target
ScanSelects(p) == mcall[p].pc = "scan" /\ mcall'[p].pc = "done" /\ mcall'[p].ret # 0

\* The scan leaves the credentials alone that are Exhausted.
ScanSkipsExhausted(p) ==
  /\ ScanBeginsCheck(p) => subUsers'[mcall'[p].target].status # "exhausted"
  /\ ScanSelects(p) => subUsers[mcall'[p].ret].status # "exhausted"

\* C38 as stated: once a credential's status is Exhausted no quota check
\* sets it back, and the pool scan of getProxyConfig neither begins a quota
\* check of it nor selects it.
C38_ExhaustedAbsorbing ==
  /\ [][ExhaustedStays]_vars
  /\ [][\A p \in Callers : ScanSkipsExhausted(p)]_vars

\* C39: the search endpoint never answers a request for limit = n with more
\* than n results, whatever searches of the same query went before.
C39_LimitRespected ==
  searchCall.status = 200 => Len(searchCall.data) <= searchCall.limit

\* The browsers that are connected and the pages that are open.
LiveBrowsers == {i \in 1..Len(browsers) : browsers[i].connected}
LivePages == {k \in 1..Len(pages) : pages[k].open}

\* C40: a BrowserClient holds at most one live browser and one live page at
\* any time, and every live one is the one the client's field refers to (the
\* one the next reset() closes): calls that arrive together launch one
\* browser, and none is left unreferenced.
C40_OneLiveBrowser ==
  /\ Cardinality(LiveBrowsers) <= 1
  /\ Cardinality(LivePages) <= 1
  /\ \A i \in LiveBrowsers : browser = i
  /\ \A k \in LivePages : activePage = k

====
